---- MODULE Spec2Model ----
(***************************************************************************)
(* Prediction scoring and user aggregates of the World Cup prediction API. *)
(* The handlers of src/unnamed/part_000 (the corrected server) and the     *)
(* group-scoring handlers of src/server.js, over one MongoDB database.     *)
(* Every await of a handler is one step of the request that runs it; the   *)
(* requests of different clients interleave at those steps.                *)
(***************************************************************************)
EXTENDS Integers, Sequences, FiniteSets, TLC

\* ------------------------------------------------------------------ bounds
\* largest goal count in a score or a predicted score
MaxGoals == 1
\* largest page and largest page size asked of the leaderboard
MaxPage == 3
MaxLimit == 2
\* most matches a user has predicted right, in the aggregates a ranking starts from
MaxCorrect == 1
\* requests that enter results, score, recompute or delete, in one behaviour
MaxOps == 2
\* requests that create or edit a prediction, in one behaviour
MaxPosts == 2
\* most users with points, where the percentile is checked on counts alone
MaxRanked == 40

\* ------------------------------------------------------- program constants
\* points for the correct winner and, on top, for the exact score
CorrectWinnerPoints == 3
CorrectScorePoints == 5

\* ------------------------------------------------------------- identifiers
\* the registered users, and those of them who send predictions
Users == {"u1", "u2", "u3"}
Predictors == {"u1", "u2"}
\* the match ids: those of the seeded schedule, and those a POST /api/matches
\* may still create
Seeded == {"m1"}
Matches == {"m1", "m2"}
Procs == {1, 2}
Teams == {"t1", "t2"}
Groups == {"A"}
\* the stages of a knockout prediction
Stages ==
  {"Round of 32", "Round of 16", "Quarter Finals", "Semi Finals", "Third Place", "Final"}
\* knockout slots: <<stage, matchOrder>>
Slots == {<<stage, 1>> : stage \in Stages}

\* null of a Number field (homeScore, awayScore)
NULL == 0 - 1
\* null of an ObjectId reference
NoRef == "null"

Statuses == {"Scheduled", "Finished"}
\* the phases a request gives a match: one of the group stage, one of the knockout
Phases == {"Group Stage", "Final"}
\* a field that the body of a request does not hold
Undefined == "undefined"
Winners == {"HOME", "AWAY", "DRAW"}
Goals == 0 .. MaxGoals
Scores == Goals \cup {NULL}

\* ------------------------------------------------------------------- state
VARIABLES
  matches,          \* Match collection: match id -> document
  matchPreds,       \* MatchPrediction collection: <<user, match>> -> document
  groupPreds,       \* GroupPrediction collection: <<user, group>> -> document
  knockoutPreds,    \* KnockoutPrediction collection: <<user, slot>> -> document
  tournamentPreds,  \* TournamentPrediction collection: user -> document
  users,            \* User collection: user id -> aggregate fields
  teams,            \* Team collection: team id -> the document is stored
  pc,               \* per request slot: the await the handler is at
  req,              \* per request slot: the request being served
  loc,              \* per request slot: the handler's local variables
  ops,              \* scoring, recomputing and deleting requests started so far
  posts,            \* prediction upserts started so far
  last              \* the last request answered, when it entered a result, the
                    \* database it left and the users it recomputed, while no other
                    \* request has been served since; req becomes the recomputation
                    \* of every user when that is the request that follows

preds == <<matchPreds, groupPreds, knockoutPreds, tournamentPreds>>
db == <<matches, matchPreds, groupPreds, knockoutPreds, tournamentPreds, users, teams>>
vars == <<matches, matchPreds, groupPreds, knockoutPreds, tournamentPreds, users, teams, pc, req, loc, ops, posts, last>>

\* --------------------------------------------------------------- documents
\* MatchSchema defaults: status Scheduled, scores null, phase Group Stage
NewMatch ==
  [exists |-> TRUE, status |-> "Scheduled", homeScore |-> NULL, awayScore |-> NULL,
   phase |-> "Group Stage", homeTeam |-> NoRef, awayTeam |-> NoRef]

\* the slot of a match id that no document has been created with
NoMatch == [NewMatch EXCEPT !.exists = FALSE]

\* the matches of the schedule seeded at start: every entry of
\* OFFICIAL_MATCHES_SEED is a scheduled match of the group stage between two
\* teams, here t1 against t2
SeededMatches ==
  [m \in Matches |->
     IF m \in Seeded
     THEN [NewMatch EXCEPT !.phase = "Group Stage", !.homeTeam = "t1", !.awayTeam = "t2"]
     ELSE NoMatch]

\* A slot of a prediction collection that holds no document. id counts the
\* documents the slot has held: every created document gets a fresh _id.
\* copies counts the documents stored with the key of the slot.
NoMatchPred(n) ==
  [exists |-> FALSE, copies |-> 0, id |-> n, homeGoalsPred |-> 0, awayGoalsPred |-> 0, winnerPred |-> "DRAW",
   pointsAwarded |-> 0, isCorrectWinner |-> FALSE, isCorrectScore |-> FALSE]

NoGroupPred(n) ==
  [exists |-> FALSE, copies |-> 0, id |-> n, firstPlaceTeam |-> NoRef, secondPlaceTeam |-> NoRef,
   thirdPlaceTeam |-> NoRef, pointsAwarded |-> 0]

NoKnockoutPred(n) ==
  [exists |-> FALSE, copies |-> 0, id |-> n, match |-> NoRef, predictedWinnerTeam |-> NoRef, pointsAwarded |-> 0]

NoTournamentPred(n) ==
  [exists |-> FALSE, copies |-> 0, id |-> n, championTeam |-> NoRef, pointsAwarded |-> 0]

\* UserSchema defaults
NewUser == [totalPoints |-> 0, correctMatches |-> 0, correctScores |-> 0]

\* ------------------------------------------------------- request slots
NoReq == [op |-> "none"]
NoLast == [req |-> NoReq]
\* the requests that enter a result and score the predictions on it
Finalizations == {"adminPutMatch", "adminRecalculateGroupPoints", "srvAdminRecalculateGroupPoints"}

\* no entry of the results of GET knockout/results
NoResult == [listed |-> FALSE, isCorrect |-> "null", pointsEarned |-> 0]

\* the four results of the finds of recalcUserTotals, before any
NoOwn ==
  [groupPreds |-> [g \in Groups |-> NoGroupPred(0)],
   matchPreds |-> [m \in Matches |-> NoMatchPred(0)],
   knockoutPreds |-> [s \in Slots |-> NoKnockoutPred(0)],
   tournamentPred |-> NoTournamentPred(0)]

\* the local variables of a handler, before it has assigned any
NoLoc ==
  [match |-> NewMatch,                          \* the Match document read
   preds |-> [u \in Users |-> NoMatchPred(0)],  \* MatchPrediction.find result, by owner
   gpreds |-> [u \in Users |-> NoGroupPred(0)], \* GroupPrediction.find result, by owner
   kpreds |-> [s \in Slots |-> NoKnockoutPred(0)], \* KnockoutPrediction.find result, by slot
   paths |-> {},                                \* the paths of kpreds still to populate
   played |-> [m \in Matches |-> NoMatch],      \* Match.find result of the results, by id
   results |-> [s \in Slots |-> NoResult],      \* the entries of results, by slot
   correctPredictions |-> 0,
   pointsFromKnockout |-> 0,
   found |-> << >>,                             \* User.find result of the leaderboard
   board |-> << >>,                             \* the leaderboard of the response
   totalPages |-> 0,
   betterUsers |-> 0,
   position |-> 0,
   totalUsers |-> 0,
   percentile |-> 0,
   todo |-> << >>,                              \* owners of the documents still to score
   touched |-> << >>,                           \* users still to recompute
   user |-> NewUser,                            \* the User document read
   own |-> NoOwn,                               \* the predictions recalcUserTotals has read
   calc |-> NewUser,                            \* the totals computed from the predictions
   points |-> 0,
   oldPoints |-> 0,
   saved |-> {},                                \* owners whose prediction was saved
   recalced |-> {},                             \* users whose aggregate was saved
   deleted |-> {},                              \* owners of the documents deleted
   missed |-> FALSE,                            \* the query of the upsert matched no document
   status |-> 0]                                \* HTTP status of the response, 0 before it

\* the orders in which a find may return the documents of the owners in S
Orders(S) == {s \in [1 .. Cardinality(S) -> S] : \A i, j \in 1 .. Cardinality(S) : s[i] = s[j] => i = j}

RECURSIVE SumOver(_, _)
SumOver(f, S) ==
  IF S = {} THEN 0
  ELSE LET k == CHOOSE k \in S : TRUE IN f[k] + SumOver(f, S \ {k})

\* document.save(): only the paths whose value differs from the value loaded
\* are written ($set of the modified paths); the other paths keep what is stored
SaveDoc(cur, loaded, new, paths) ==
  [f \in DOMAIN cur |-> IF f \in paths /\ new[f] # loaded[f] THEN new[f] ELSE cur[f]]

\* document.save() finds the document by _id: it throws DocumentNotFoundError
\* when the document loaded has been deleted since
Stored(cur, loaded) == cur.exists /\ cur.id = loaded.id

\* -------------------------------------------------- steps common to handlers
\* the request of slot p starts: the handler's first await is the step itself
Begin(p, r) ==
  /\ pc[p] = "idle"
  /\ ops < MaxOps
  /\ ops' = ops + 1
  /\ req' = [req EXCEPT ![p] = r]
  /\ last' = IF r = last.req THEN last
             ELSE IF r.op = "calculateAllPoints" /\ last.req # NoReq THEN [last EXCEPT !.req = r]
             ELSE NoLast
  /\ UNCHANGED posts

\* the same for a request that creates or edits a prediction
BeginPost(p, r) ==
  /\ pc[p] = "idle"
  /\ posts < MaxPosts
  /\ posts' = posts + 1
  /\ req' = [req EXCEPT ![p] = r]
  /\ last' = NoLast
  /\ UNCHANGED ops

\* the handler responds with HTTP status code
Respond(p, l, code) ==
  /\ pc' = [pc EXCEPT ![p] = "done"]
  /\ loc' = [loc EXCEPT ![p] = [l EXCEPT !.status = code]]

\* the response has been sent: the slot is free again
Return(p) ==
  /\ pc[p] = "done"
  /\ pc' = [pc EXCEPT ![p] = "idle"]
  /\ req' = [req EXCEPT ![p] = NoReq]
  /\ loc' = [loc EXCEPT ![p] = NoLoc]
  /\ last' = IF req[p].op \in Finalizations \cup {"calculateGroupPoints"} /\ loc[p].status = 200
             THEN [req |-> req[p], db |-> db, recalced |-> loc[p].recalced] ELSE NoLast
  /\ UNCHANGED <<db, ops, posts>>

\* the handler goes on to recalcUserTotals for each user of us, in order
ThenRecalc(p, l, us) ==
  IF us = << >>
  THEN Respond(p, l, 200)
  ELSE /\ pc' = [pc EXCEPT ![p] = "recalc_findUser"]
       /\ loc' = [loc EXCEPT ![p] = [l EXCEPT !.touched = us]]

\* ------------------------------------------------------- match scoring
\* computeActualWinner; a relational operator of JavaScript reads null as 0
Num(x) == IF x = NULL THEN 0 ELSE x

computeActualWinner(match) ==
  IF Num(match.homeScore) > Num(match.awayScore) THEN "HOME"
  ELSE IF Num(match.awayScore) > Num(match.homeScore) THEN "AWAY"
  ELSE "DRAW"

\* the loop body with isCorrectScore taken from the goals alone, without the
\* isCorrectWinner conjunct: the scorer C10 must tell apart from ScoredMatchPred
ScoredMatchPredGoalsAlone(pred, match) ==
  LET isCorrectWinner == pred.winnerPred = computeActualWinner(match)
      isCorrectScore == /\ pred.homeGoalsPred = match.homeScore
                        /\ pred.awayGoalsPred = match.awayScore
      points == (IF isCorrectWinner THEN CorrectWinnerPoints ELSE 0)
                + (IF isCorrectScore THEN CorrectScorePoints ELSE 0)
  IN [pred EXCEPT !.pointsAwarded = points,
                  !.isCorrectWinner = isCorrectWinner,
                  !.isCorrectScore = isCorrectScore]

\* the loop body with the points added to the pointsAwarded the prediction
\* holds instead of counted from 0
ScoredMatchPredAdding(pred, match) ==
  LET isCorrectWinner == pred.winnerPred = computeActualWinner(match)
      isCorrectScore == /\ isCorrectWinner
                        /\ pred.homeGoalsPred = match.homeScore
                        /\ pred.awayGoalsPred = match.awayScore
      points == pred.pointsAwarded
                + (IF isCorrectWinner THEN CorrectWinnerPoints ELSE 0)
                + (IF isCorrectScore THEN CorrectScorePoints ELSE 0)
  IN [pred EXCEPT !.pointsAwarded = points,
                  !.isCorrectWinner = isCorrectWinner,
                  !.isCorrectScore = isCorrectScore]

\* the body of the loop of calculateMatchPointsForAllUsers: the prediction
\* document pred with the three derived fields assigned
ScoredMatchPred(pred, match) ==
  LET isCorrectWinner == pred.winnerPred = computeActualWinner(match)
      isCorrectScore == /\ isCorrectWinner
                        /\ pred.homeGoalsPred = match.homeScore
                        /\ pred.awayGoalsPred = match.awayScore
      points == (IF isCorrectWinner THEN CorrectWinnerPoints ELSE 0)
                + (IF isCorrectScore THEN CorrectScorePoints ELSE 0)
  IN [pred EXCEPT !.pointsAwarded = points,
                  !.isCorrectWinner = isCorrectWinner,
                  !.isCorrectScore = isCorrectScore]

\* ------------------------------------------------------- recalcUserTotals
\* the predictions of user u as the four finds return them when nothing is
\* written between them
OwnPreds(u) ==
  [groupPreds |-> [g \in Groups |-> groupPreds[<<u, g>>]],
   matchPreds |-> [m \in Matches |-> matchPreds[<<u, m>>]],
   knockoutPreds |-> [s \in Slots |-> knockoutPreds[<<u, s>>]],
   tournamentPred |-> tournamentPreds[u]]

\* the totals without the sum of the group predictions: the recomputation C1
\* must tell apart from recalcTotals
recalcTotalsWithoutGroups(own) ==
  LET points(doc) == IF doc.exists THEN doc.pointsAwarded ELSE 0
  IN [totalPoints |->
        SumOver([m \in Matches |-> points(own.matchPreds[m])], Matches)
        + SumOver([s \in Slots |-> points(own.knockoutPreds[s])], Slots)
        + points(own.tournamentPred),
      correctMatches |->
        Cardinality({m \in Matches : own.matchPreds[m].exists /\ own.matchPreds[m].isCorrectWinner}),
      correctScores |->
        Cardinality({m \in Matches : own.matchPreds[m].exists /\ own.matchPreds[m].isCorrectScore})]

\* the totals with correctScores counted as correctMatches is counted
recalcTotalsOneCount(own) ==
  LET points(doc) == IF doc.exists THEN doc.pointsAwarded ELSE 0
  IN [totalPoints |->
        SumOver([g \in Groups |-> points(own.groupPreds[g])], Groups)
        + SumOver([m \in Matches |-> points(own.matchPreds[m])], Matches)
        + SumOver([s \in Slots |-> points(own.knockoutPreds[s])], Slots)
        + points(own.tournamentPred),
      correctMatches |->
        Cardinality({m \in Matches : own.matchPreds[m].exists /\ own.matchPreds[m].isCorrectWinner}),
      correctScores |->
        Cardinality({m \in Matches : own.matchPreds[m].exists /\ own.matchPreds[m].isCorrectWinner})]

\* totalPoints, correctMatches and correctScores as recalcUserTotals computes
\* them from the four results own of its finds
recalcTotals(own) ==
  LET points(doc) == IF doc.exists THEN doc.pointsAwarded ELSE 0
  IN [totalPoints |->
        SumOver([g \in Groups |-> points(own.groupPreds[g])], Groups)
        + SumOver([m \in Matches |-> points(own.matchPreds[m])], Matches)
        + SumOver([s \in Slots |-> points(own.knockoutPreds[s])], Slots)
        + points(own.tournamentPred),
      correctMatches |->
        Cardinality({m \in Matches : own.matchPreds[m].exists /\ own.matchPreds[m].isCorrectWinner}),
      correctScores |->
        Cardinality({m \in Matches : own.matchPreds[m].exists /\ own.matchPreds[m].isCorrectScore})]

\* const user = await User.findById(userId)  (users are never deleted)
recalc_findUser(p) ==
  /\ pc[p] = "recalc_findUser"
  /\ loc' = [loc EXCEPT ![p].user = users[Head(loc[p].touched)]]
  /\ pc' = [pc EXCEPT ![p] = "recalc_findGroup"]
  /\ UNCHANGED <<db, req, ops, posts, last>>

\* const groupPreds = await GroupPrediction.find({user: userId})
recalc_findGroup(p) ==
  /\ pc[p] = "recalc_findGroup"
  /\ loc' = [loc EXCEPT ![p].own.groupPreds = OwnPreds(Head(loc[p].touched)).groupPreds]
  /\ pc' = [pc EXCEPT ![p] = "recalc_findMatch"]
  /\ UNCHANGED <<db, req, ops, posts, last>>

\* const matchPreds = await MatchPrediction.find({user: userId})
recalc_findMatch(p) ==
  /\ pc[p] = "recalc_findMatch"
  /\ loc' = [loc EXCEPT ![p].own.matchPreds = OwnPreds(Head(loc[p].touched)).matchPreds]
  /\ pc' = [pc EXCEPT ![p] = "recalc_findKnockout"]
  /\ UNCHANGED <<db, req, ops, posts, last>>

\* const knockoutPreds = await KnockoutPrediction.find({user: userId})
recalc_findKnockout(p) ==
  /\ pc[p] = "recalc_findKnockout"
  /\ loc' = [loc EXCEPT ![p].own.knockoutPreds = OwnPreds(Head(loc[p].touched)).knockoutPreds]
  /\ pc' = [pc EXCEPT ![p] = "recalc_findTournament"]
  /\ UNCHANGED <<db, req, ops, posts, last>>

\* const tournamentPred = await TournamentPrediction.findOne({user: userId});
\* then the sums and the counts
recalc_findTournament(p) ==
  /\ pc[p] = "recalc_findTournament"
  /\ LET own == [loc[p].own EXCEPT !.tournamentPred = OwnPreds(Head(loc[p].touched)).tournamentPred]
     IN loc' = [loc EXCEPT ![p].own = own, ![p].calc = recalcTotals(own)]
  /\ pc' = [pc EXCEPT ![p] = "recalc_save"]
  /\ UNCHANGED <<db, req, ops, posts, last>>

\* the save that adds the computed totalPoints to the stored ones
recalc_saveAdding(p) ==
  /\ pc[p] = "recalc_save"
  /\ LET u == Head(loc[p].touched)
         l == [loc[p] EXCEPT !.recalced = @ \cup {u}, !.own = NoOwn]
     IN /\ users' = [users EXCEPT ![u] =
                       SaveDoc(users[u], loc[p].user,
                               [loc[p].calc EXCEPT !.totalPoints = @ + loc[p].user.totalPoints],
                               {"totalPoints", "correctMatches", "correctScores"})]
        /\ ThenRecalc(p, l, Tail(loc[p].touched))
  /\ UNCHANGED <<matches, teams, preds, req, ops, posts, last>>

\* the save on the first user of the collection instead of the user loaded
recalc_saveFirstUser(p) ==
  /\ pc[p] = "recalc_save"
  /\ LET u == Head(loc[p].touched)
         l == [loc[p] EXCEPT !.recalced = @ \cup {u}, !.own = NoOwn]
     IN /\ users' = [users EXCEPT !["u1"] =
                       SaveDoc(users["u1"], loc[p].user, loc[p].calc,
                               {"totalPoints", "correctMatches", "correctScores"})]
        /\ ThenRecalc(p, l, Tail(loc[p].touched))
  /\ UNCHANGED <<matches, teams, preds, req, ops, posts, last>>

\* user.totalPoints = ...; user.correctMatches = ...; user.correctScores = ...;
\* await user.save(); then the caller's next user, or the response
recalc_save(p) ==
  /\ pc[p] = "recalc_save"
  /\ LET u == Head(loc[p].touched)
         l == [loc[p] EXCEPT !.recalced = @ \cup {u}, !.own = NoOwn]
     IN /\ users' = [users EXCEPT ![u] =
                       SaveDoc(users[u], loc[p].user, loc[p].calc,
                               {"totalPoints", "correctMatches", "correctScores"})]
        /\ ThenRecalc(p, l, Tail(loc[p].touched))
  /\ UNCHANGED <<matches, teams, preds, req, ops, posts, last>>

\* --------------------------------------------- PUT /api/admin/matches/:id
\* the handler that scores whenever the status is Finished, the scores null or
\* not: the handler C9 must tell apart from adminPutMatch
adminPutMatchAnyFinished(p, m, hs, as, st) ==
  /\ Begin(p, [op |-> "adminPutMatch", match |-> m, homeScore |-> hs, awayScore |-> as, status |-> st])
  /\ IF ~matches[m].exists
     THEN /\ Respond(p, loc[p], 404)
          /\ UNCHANGED matches
     ELSE LET match == [matches[m] EXCEPT !.homeScore = hs, !.awayScore = as, !.status = st]
          IN /\ matches' = [matches EXCEPT ![m] = match]
             /\ IF match.status = "Finished"
                THEN /\ pc' = [pc EXCEPT ![p] = "calc_findMatch"]
                     /\ loc' = [loc EXCEPT ![p].match = match]
                ELSE Respond(p, [loc[p] EXCEPT !.match = match], 200)
  /\ UNCHANGED <<preds, users, teams>>

\* Match.findByIdAndUpdate(id, {homeScore, awayScore, status}, {new: true})
adminPutMatch(p, m, hs, as, st) ==
  /\ Begin(p, [op |-> "adminPutMatch", match |-> m, homeScore |-> hs, awayScore |-> as, status |-> st])
  /\ IF ~matches[m].exists
     THEN /\ Respond(p, loc[p], 404)
          /\ UNCHANGED matches
     ELSE LET match == [matches[m] EXCEPT !.homeScore = hs, !.awayScore = as, !.status = st]
          IN /\ matches' = [matches EXCEPT ![m] = match]
             /\ IF match.status = "Finished" /\ match.homeScore # NULL /\ match.awayScore # NULL
                THEN /\ pc' = [pc EXCEPT ![p] = "calc_findMatch"]
                     /\ loc' = [loc EXCEPT ![p].match = match]
                ELSE Respond(p, [loc[p] EXCEPT !.match = match], 200)
  /\ UNCHANGED <<preds, users, teams>>

\* calculateMatchPointsForAllUsers: const match = await Match.findById(matchId)
calc_findMatch(p) ==
  /\ pc[p] = "calc_findMatch"
  /\ LET match == matches[req[p].match]
     IN IF ~match.exists \/ match.status # "Finished"
        THEN Respond(p, loc[p], 200)
        ELSE /\ pc' = [pc EXCEPT ![p] = "calc_findPreds"]
             /\ loc' = [loc EXCEPT ![p].match = match]
  /\ UNCHANGED <<db, req, ops, posts, last>>

\* const preds = await MatchPrediction.find({match: match._id})
calc_findPreds(p) ==
  /\ pc[p] = "calc_findPreds"
  /\ LET m == req[p].match
         owners == {u \in Users : matchPreds[<<u, m>>].exists}
     IN \E order \in Orders(owners) :
          LET l == [loc[p] EXCEPT !.preds = [u \in Users |-> matchPreds[<<u, m>>]],
                                  !.todo = order,
                                  !.touched = order]
          IN IF order = << >>
             THEN Respond(p, l, 200)
             ELSE /\ pc' = [pc EXCEPT ![p] = "calc_savePred"]
                  /\ loc' = [loc EXCEPT ![p] = l]
  /\ UNCHANGED <<db, req, ops, posts, last>>

\* one turn of the loop: pred.pointsAwarded = ...; await pred.save(); after the
\* last turn, recalcUserTotals for the affected users. A save that throws
\* leaves the function and the handler (catch: 500).
calc_savePred(p) ==
  /\ pc[p] = "calc_savePred"
  /\ LET u == Head(loc[p].todo)
         k == <<u, req[p].match>>
         pred == loc[p].preds[u]
         l == [loc[p] EXCEPT !.todo = Tail(@), !.saved = @ \cup {u}]
     IN IF ~Stored(matchPreds[k], pred)
        THEN /\ Respond(p, loc[p], 500)
             /\ UNCHANGED matchPreds
        ELSE /\ matchPreds' = [matchPreds EXCEPT ![k] =
                                 SaveDoc(@, pred, ScoredMatchPred(pred, loc[p].match),
                                         {"pointsAwarded", "isCorrectWinner", "isCorrectScore"})]
             /\ IF l.todo = << >>
                THEN ThenRecalc(p, l, l.touched)
                ELSE /\ loc' = [loc EXCEPT ![p] = l]
                     /\ UNCHANGED pc
  /\ UNCHANGED <<matches, teams, groupPreds, knockoutPreds, tournamentPreds, users, req, ops, posts, last>>

\* --------------------------------------------------- PUT /api/matches/:id
\* Match.findByIdAndUpdate(id, {homeScore, awayScore, status, stadium,
\* matchDate, group, phase, matchOrder}): no scoring. A field the body does
\* not hold is undefined and is left as stored; stadium, matchDate, group and
\* matchOrder are read by no handler of the model.
putMatch(p, m, hs, as, st, phase) ==
  /\ Begin(p, [op |-> "putMatch", match |-> m, homeScore |-> hs, awayScore |-> as, status |-> st,
                phase |-> phase])
  /\ IF ~matches[m].exists
     THEN /\ Respond(p, loc[p], 404)
          /\ UNCHANGED matches
     ELSE /\ matches' = [matches EXCEPT ![m] =
                           [@ EXCEPT !.homeScore = hs, !.awayScore = as, !.status = st,
                                     !.phase = IF phase = Undefined THEN @ ELSE phase]]
          /\ Respond(p, loc[p], 200)
  /\ UNCHANGED <<preds, users, teams>>

\* ------------------------------------------- POST /api/matches (server.js)
\* const newMatch = new Match({homeTeam, awayTeam, matchDate, stadium, group,
\* phase: phase || 'Group Stage'}); await newMatch.save(); the document gets
\* an id no Match document has been created with
postMatch(p, home, away, phase) ==
  /\ \E id \in Matches : ~matches[id].exists /\ matches[id].homeTeam = NoRef
  /\ Begin(p, [op |-> "postMatch", homeTeam |-> home, awayTeam |-> away, phase |-> phase])
  /\ LET m == CHOOSE id \in Matches : ~matches[id].exists /\ matches[id].homeTeam = NoRef
         match == [NewMatch EXCEPT !.homeTeam = home, !.awayTeam = away,
                                   !.phase = IF phase = Undefined THEN "Group Stage" ELSE phase]
     IN /\ matches' = [matches EXCEPT ![m] = match]
        /\ loc' = [loc EXCEPT ![p].match = match]
  /\ pc' = [pc EXCEPT ![p] = "postMatch_find"]
  /\ UNCHANGED <<preds, users, teams>>

\* const populatedMatch = await Match.findById(newMatch._id).populate(...);
\* res.status(201)
postMatch_find(p) ==
  /\ pc[p] = "postMatch_find"
  /\ Respond(p, loc[p], 201)
  /\ UNCHANGED <<db, req, ops, posts, last>>

\* ------------------------------------------------- DELETE /api/teams/:id
\* await Player.deleteMany({team: req.params.id})
deleteTeam(p, t) ==
  /\ Begin(p, [op |-> "deleteTeam", team |-> t])
  /\ pc' = [pc EXCEPT ![p] = "deleteTeam_delete"]
  /\ UNCHANGED <<db, loc>>

\* const team = await Team.findByIdAndDelete(req.params.id)
deleteTeam_delete(p) ==
  /\ pc[p] = "deleteTeam_delete"
  /\ IF teams[req[p].team]
     THEN /\ teams' = [teams EXCEPT ![req[p].team] = FALSE]
          /\ Respond(p, loc[p], 200)
     ELSE /\ UNCHANGED teams
          /\ Respond(p, loc[p], 404)
  /\ UNCHANGED <<matches, preds, users, req, ops, posts, last>>

\* ------------------------------------------------ DELETE /api/matches/:id
\* const match = await Match.findByIdAndDelete(req.params.id)
deleteMatch(p, m) ==
  /\ Begin(p, [op |-> "deleteMatch", match |-> m])
  /\ IF ~matches[m].exists
     THEN /\ Respond(p, loc[p], 404)
          /\ UNCHANGED matches
     ELSE /\ matches' = [matches EXCEPT ![m].exists = FALSE]
          /\ pc' = [pc EXCEPT ![p] = "deleteMatch_preds"]
          /\ UNCHANGED loc
  /\ UNCHANGED <<preds, users, teams>>

\* await MatchPrediction.deleteMany({match: match._id})
deleteMatch_preds(p) ==
  /\ pc[p] = "deleteMatch_preds"
  /\ LET m == req[p].match
         owners == {u \in Users : matchPreds[<<u, m>>].exists}
     IN /\ matchPreds' = [k \in Users \X Matches |->
                            IF k[2] = m /\ matchPreds[k].exists
                            THEN NoMatchPred(matchPreds[k].id) ELSE matchPreds[k]]
        /\ loc' = [loc EXCEPT ![p].deleted = owners]
  /\ pc' = [pc EXCEPT ![p] = "deleteMatch_knockout"]
  /\ UNCHANGED <<matches, teams, groupPreds, knockoutPreds, tournamentPreds, users, req, ops, posts, last>>

\* await KnockoutPrediction.updateMany({match: match._id}, {$set: {match: null}})
deleteMatch_knockout(p) ==
  /\ pc[p] = "deleteMatch_knockout"
  /\ knockoutPreds' = [k \in Users \X Slots |->
                         IF knockoutPreds[k].exists /\ knockoutPreds[k].match = req[p].match
                         THEN [knockoutPreds[k] EXCEPT !.match = NoRef] ELSE knockoutPreds[k]]
  /\ Respond(p, loc[p], 200)
  /\ UNCHANGED <<matches, teams, matchPreds, groupPreds, tournamentPreds, users, req, ops, posts, last>>

\* ---------------------------------------------- POST /api/predictions/match
\* const match = await Match.findById(matchId); 404 without it, 400 once Finished
postMatchPrediction(p, u, m, hg, ag, w) ==
  /\ BeginPost(p, [op |-> "postMatchPrediction", user |-> u, match |-> m,
               homeGoalsPred |-> hg, awayGoalsPred |-> ag, winnerPred |-> w])
  /\ IF ~matches[m].exists
     THEN Respond(p, loc[p], 404)
     ELSE IF matches[m].status = "Finished"
     THEN Respond(p, loc[p], 400)
     ELSE /\ pc' = [pc EXCEPT ![p] = "postMatchPrediction_upsert"]
          /\ loc' = [loc EXCEPT ![p].match = matches[m]]
  /\ UNCHANGED db

\* MatchPrediction.findOneAndUpdate({user, match}, {homeGoalsPred, awayGoalsPred,
\* winnerPred}, {upsert: true}): an insert takes the schema defaults for the rest
postMatchPrediction_upsert(p) ==
  /\ pc[p] = "postMatchPrediction_upsert"
  /\ LET k == <<req[p].user, req[p].match>>
         cur == IF matchPreds[k].exists THEN matchPreds[k]
                ELSE [NoMatchPred(matchPreds[k].id + 1) EXCEPT !.exists = TRUE, !.copies = 1]
     IN matchPreds' = [matchPreds EXCEPT ![k] =
                         [cur EXCEPT !.homeGoalsPred = req[p].homeGoalsPred,
                                     !.awayGoalsPred = req[p].awayGoalsPred,
                                     !.winnerPred = req[p].winnerPred]]
  /\ Respond(p, loc[p], 201)
  /\ UNCHANGED <<matches, teams, groupPreds, knockoutPreds, tournamentPreds, users, req, ops, posts, last>>

\* -------------------------------- DELETE /api/predictions/match/:matchId
\* MatchPrediction.findOneAndDelete({user, match}); then recalcUserTotals(user)
deleteMatchPrediction(p, u, m) ==
  /\ Begin(p, [op |-> "deleteMatchPrediction", user |-> u, match |-> m])
  /\ LET k == <<u, m>>
     IN IF ~matchPreds[k].exists
        THEN /\ Respond(p, loc[p], 404)
             /\ UNCHANGED matchPreds
        ELSE /\ matchPreds' = [matchPreds EXCEPT ![k] = NoMatchPred(@.id)]
             /\ ThenRecalc(p, [loc[p] EXCEPT !.deleted = {u}], <<u>>)
  /\ UNCHANGED <<matches, teams, groupPreds, knockoutPreds, tournamentPreds, users>>

\* ------------------------------------------- POST /api/predictions/knockout
\* KnockoutPrediction.findOneAndUpdate({user, stage, matchOrder}, {..., match:
\* matchId || null, predictedWinnerTeam, ...}, {upsert: true})
postKnockoutPrediction(p, u, slot, m, team) ==
  /\ BeginPost(p, [op |-> "postKnockoutPrediction", user |-> u, slot |-> slot, match |-> m,
               predictedWinnerTeam |-> team])
  /\ LET k == <<u, slot>>
         cur == IF knockoutPreds[k].exists THEN knockoutPreds[k]
                ELSE [NoKnockoutPred(knockoutPreds[k].id + 1) EXCEPT !.exists = TRUE, !.copies = 1]
     IN knockoutPreds' = [knockoutPreds EXCEPT ![k] =
                            [cur EXCEPT !.match = m, !.predictedWinnerTeam = team]]
  /\ Respond(p, loc[p], 201)
  /\ UNCHANGED <<matches, teams, matchPreds, groupPreds, tournamentPreds, users>>

\* ----------------------------------------- DELETE /api/predictions/knockout
\* KnockoutPrediction.deleteMany({user}); then recalcUserTotals(user)
deleteKnockoutPredictions(p, u) ==
  /\ Begin(p, [op |-> "deleteKnockoutPredictions", user |-> u])
  /\ knockoutPreds' = [k \in Users \X Slots |->
                         IF k[1] = u /\ knockoutPreds[k].exists
                         THEN NoKnockoutPred(knockoutPreds[k].id) ELSE knockoutPreds[k]]
  /\ ThenRecalc(p, [loc[p] EXCEPT !.deleted = IF \A s \in Slots : ~knockoutPreds[<<u, s>>].exists THEN {} ELSE {u}], <<u>>)
  /\ UNCHANGED <<matches, teams, matchPreds, groupPreds, tournamentPreds, users>>

\* ------------------------------------- POST /api/admin/calculate-all-points
\* const users = await User.find({}); then recalcUserTotals for each of them
calculateAllPoints(p) ==
  /\ Begin(p, [op |-> "calculateAllPoints"])
  /\ \E order \in Orders(Users) : ThenRecalc(p, loc[p], order)
  /\ UNCHANGED db

\* ------------------------------------------------------- group scoring
\* undefined: the value of a field the request body does not have
Missing == "undefined"
\* what a request may give as a place of the standings: a team id, null, nothing
Places == Teams \cup {NoRef, Missing}

\* x?.toString(): undefined for null, the id's string otherwise
OptToString(x) == IF x = NoRef THEN Missing ELSE x

\* the three places scored without the bonus of the perfect group
groupPointsNoBonus(prediction, standings) ==
  (IF prediction.firstPlaceTeam = standings.first THEN 5 ELSE 0)
  + (IF prediction.secondPlaceTeam = standings.second THEN 3 ELSE 0)
  + (IF prediction.thirdPlaceTeam # NoRef /\ prediction.thirdPlaceTeam = standings.third
     THEN 2 ELSE 0)

\* the points of part_000's two group scoring loops (the same statements):
\* String(prediction.xPlaceTeam) === String(standings.x), the third place only
\* when the prediction has one. Ids, null and undefined are held here as the
\* strings String() gives them, so String() is no step of its own.
groupPoints(prediction, standings) ==
  LET raw == (IF prediction.firstPlaceTeam = standings.first THEN 5 ELSE 0)
             + (IF prediction.secondPlaceTeam = standings.second THEN 3 ELSE 0)
             + (IF prediction.thirdPlaceTeam # NoRef /\ prediction.thirdPlaceTeam = standings.third
                THEN 2 ELSE 0)
  IN IF raw = 10 THEN raw + 5 ELSE raw

\* the points of server.js's group scoring:
\* prediction.xPlaceTeam?.toString() === standings.x
srvGroupPoints(prediction, standings) ==
  LET raw == (IF OptToString(prediction.firstPlaceTeam) = standings.first THEN 5 ELSE 0)
             + (IF OptToString(prediction.secondPlaceTeam) = standings.second THEN 3 ELSE 0)
             + (IF OptToString(prediction.thirdPlaceTeam) = standings.third THEN 2 ELSE 0)
  IN IF raw = 10 THEN raw + 5 ELSE raw

\* ---------------------------------------------- POST /api/predictions/group
\* GroupPrediction.findOneAndUpdate({user, group}, {firstPlaceTeam,
\* secondPlaceTeam, thirdPlaceTeam: thirdPlaceTeam || null}, {upsert: true})
postGroupPrediction(p, u, g, first, second, third) ==
  /\ BeginPost(p, [op |-> "postGroupPrediction", user |-> u, group |-> g,
               firstPlaceTeam |-> first, secondPlaceTeam |-> second, thirdPlaceTeam |-> third])
  /\ LET k == <<u, g>>
         cur == IF groupPreds[k].exists THEN groupPreds[k]
                ELSE [NoGroupPred(groupPreds[k].id + 1) EXCEPT !.exists = TRUE, !.copies = 1]
     IN groupPreds' = [groupPreds EXCEPT ![k] =
                         [cur EXCEPT !.firstPlaceTeam = first, !.secondPlaceTeam = second,
                                     !.thirdPlaceTeam = third]]
  /\ Respond(p, loc[p], 201)
  /\ UNCHANGED <<matches, teams, matchPreds, knockoutPreds, tournamentPreds, users>>

\* --------------------------------------- POST /api/predictions/groups/bulk
\* String(groupKey).toUpperCase(), on the keys the model sends
ToUpperCase(key) == IF key = "a" THEN "A" ELSE key

\* the entries the loop refuses before it awaits anything: group not one of
\* /^[A-L]$/, first or second missing
Refused(e) ==
  \/ ToUpperCase(e.key) \notin {"A", "B", "C", "D", "E", "F", "G", "H", "I", "J", "K", "L"}
  \/ e.first = NoRef
  \/ e.second = NoRef

\* the entries of a body from the first one the loop awaits Team.find for
RECURSIVE Awaited(_)
Awaited(body) ==
  IF body = << >> THEN << >>
  ELSE IF Refused(Head(body)) THEN Awaited(Tail(body))
  ELSE body

\* const teams = await Team.find({_id: {$in: teamIds}}) for the first entry
\* of todo that reaches it; fewer than two teams found: the entry is refused
\* and the loop goes on; the response is 201 whatever was saved
bulk_find(p, l, todo) ==
  LET rest == Awaited(todo)
  IN IF rest = << >>
     THEN Respond(p, l, 201)
     ELSE LET e == Head(rest)
              found == {t \in {e.first, e.second, e.third} \ {NoRef} : teams[t]}
              next == Awaited(Tail(rest))
          IN IF Cardinality(found) >= 2
             THEN /\ pc' = [pc EXCEPT ![p] = "bulk_upsert"]
                  /\ loc' = [loc EXCEPT ![p] = [l EXCEPT !.todo = rest]]
             ELSE IF next = << >>
             THEN Respond(p, l, 201)
             ELSE /\ pc' = [pc EXCEPT ![p] = "bulk_findTeams"]
                  /\ loc' = [loc EXCEPT ![p] = [l EXCEPT !.todo = next]]

\* the handler starts: the loop over Object.entries(predictions) up to its
\* first await
postGroupBulk(p, u, body) ==
  /\ BeginPost(p, [op |-> "postGroupBulk", user |-> u, predictions |-> body])
  /\ bulk_find(p, loc[p], body)
  /\ UNCHANGED db

\* Team.find of a later entry
bulk_findTeams(p) ==
  /\ pc[p] = "bulk_findTeams"
  /\ bulk_find(p, loc[p], loc[p].todo)
  /\ UNCHANGED <<db, req, ops, posts, last>>

\* GroupPrediction.findOneAndUpdate({user, group: g}, {firstPlaceTeam,
\* secondPlaceTeam, thirdPlaceTeam: groupPred.third || null}, {upsert: true})
bulk_upsert(p) ==
  /\ pc[p] = "bulk_upsert"
  /\ LET e == Head(loc[p].todo)
         k == <<req[p].user, ToUpperCase(e.key)>>
         cur == IF groupPreds[k].exists THEN groupPreds[k]
                ELSE [NoGroupPred(groupPreds[k].id + 1) EXCEPT !.exists = TRUE, !.copies = 1]
         next == Awaited(Tail(loc[p].todo))
     IN /\ groupPreds' = [groupPreds EXCEPT ![k] =
                            [cur EXCEPT !.firstPlaceTeam = e.first, !.secondPlaceTeam = e.second,
                                        !.thirdPlaceTeam = e.third]]
        /\ IF next = << >>
           THEN Respond(p, [loc[p] EXCEPT !.todo = << >>], 201)
           ELSE /\ pc' = [pc EXCEPT ![p] = "bulk_findTeams"]
                /\ loc' = [loc EXCEPT ![p].todo = next]
  /\ UNCHANGED <<matches, teams, matchPreds, knockoutPreds, tournamentPreds, users, req, ops, posts, last>>

\* ------------------------------------ DELETE /api/predictions/group/:group
\* GroupPrediction.findOneAndDelete({user, group}); then recalcUserTotals(user)
deleteGroupPrediction(p, u, g) ==
  /\ Begin(p, [op |-> "deleteGroupPrediction", user |-> u, group |-> g])
  /\ LET k == <<u, g>>
     IN IF ~groupPreds[k].exists
        THEN /\ Respond(p, loc[p], 404)
             /\ UNCHANGED groupPreds
        ELSE /\ groupPreds' = [groupPreds EXCEPT ![k] = NoGroupPred(@.id)]
             /\ ThenRecalc(p, [loc[p] EXCEPT !.deleted = {u}], <<u>>)
  /\ UNCHANGED <<matches, teams, matchPreds, knockoutPreds, tournamentPreds, users>>

\* ----------------------------------------- POST /api/predictions/tournament
\* the upsert with the request body passed whole as the update, so that a
\* pointsAwarded sent by the client is stored
postTournamentPredictionWholeBody(p, u, team) ==
  /\ BeginPost(p, [op |-> "postTournamentPrediction", user |-> u, championTeam |-> team])
  /\ LET cur == IF tournamentPreds[u].exists THEN tournamentPreds[u]
                ELSE [NoTournamentPred(tournamentPreds[u].id + 1) EXCEPT !.exists = TRUE, !.copies = 1]
     IN \E points \in {0, 5} :
          tournamentPreds' = [tournamentPreds EXCEPT ![u] =
                                [cur EXCEPT !.championTeam = team, !.pointsAwarded = points]]
  /\ Respond(p, loc[p], 201)
  /\ UNCHANGED <<matches, teams, matchPreds, groupPreds, knockoutPreds, users>>

\* TournamentPrediction.findOneAndUpdate({user}, {championTeam, ...}, {upsert: true})
postTournamentPrediction(p, u, team) ==
  /\ BeginPost(p, [op |-> "postTournamentPrediction", user |-> u, championTeam |-> team])
  /\ LET cur == IF tournamentPreds[u].exists THEN tournamentPreds[u]
                ELSE [NoTournamentPred(tournamentPreds[u].id + 1) EXCEPT !.exists = TRUE, !.copies = 1]
     IN tournamentPreds' = [tournamentPreds EXCEPT ![u] = [cur EXCEPT !.championTeam = team]]
  /\ Respond(p, loc[p], 201)
  /\ UNCHANGED <<matches, teams, matchPreds, groupPreds, knockoutPreds, users>>

\* --------------------------------------- DELETE /api/predictions/tournament
\* TournamentPrediction.findOneAndDelete({user}); then recalcUserTotals(user)
deleteTournamentPrediction(p, u) ==
  /\ Begin(p, [op |-> "deleteTournamentPrediction", user |-> u])
  /\ tournamentPreds' = [tournamentPreds EXCEPT ![u] = NoTournamentPred(@.id)]
  /\ ThenRecalc(p, [loc[p] EXCEPT !.deleted = IF tournamentPreds[u].exists THEN {u} ELSE {}], <<u>>)
  /\ UNCHANGED <<matches, teams, matchPreds, groupPreds, knockoutPreds, users>>

\* ------------------------- POST /api/admin/recalculate-group-points (part_000)
\* groupResults holds the standings of group g; the first await of the loop:
\* const predictions = await GroupPrediction.find({group: g})
adminRecalculateGroupPoints(p, g, first, second, third) ==
  /\ Begin(p, [op |-> "adminRecalculateGroupPoints", group |-> g,
               standings |-> [first |-> first, second |-> second, third |-> third]])
  /\ LET owners == {u \in Users : groupPreds[<<u, g>>].exists}
     IN \E order \in Orders(owners) :
          LET l == [loc[p] EXCEPT !.gpreds = [u \in Users |-> groupPreds[<<u, g>>]],
                                  !.todo = order,
                                  !.touched = order]
          IN IF order = << >>
             THEN Respond(p, l, 200)
             ELSE /\ pc' = [pc EXCEPT ![p] = "adminGroup_savePred"]
                  /\ loc' = [loc EXCEPT ![p] = l]
  /\ UNCHANGED db

\* one turn of the inner loop: prediction.pointsAwarded = points; await
\* prediction.save(); after the last turn recalcUserTotals for the users touched
adminGroup_savePred(p) ==
  /\ pc[p] = "adminGroup_savePred"
  /\ LET u == Head(loc[p].todo)
         k == <<u, req[p].group>>
         prediction == loc[p].gpreds[u]
         points == groupPoints(prediction, req[p].standings)
         l == [loc[p] EXCEPT !.todo = Tail(@), !.saved = @ \cup {u}]
     IN IF ~Stored(groupPreds[k], prediction)
        THEN /\ Respond(p, loc[p], 500)
             /\ UNCHANGED groupPreds
        ELSE /\ groupPreds' = [groupPreds EXCEPT ![k] =
                                 SaveDoc(@, prediction, [prediction EXCEPT !.pointsAwarded = points],
                                         {"pointsAwarded"})]
             /\ IF l.todo = << >>
                THEN ThenRecalc(p, l, l.touched)
                ELSE /\ loc' = [loc EXCEPT ![p] = l]
                     /\ UNCHANGED pc
  /\ UNCHANGED <<matches, teams, matchPreds, knockoutPreds, tournamentPreds, users, req, ops, posts, last>>

\* ----------------------- POST /api/predictions/groups/calculate-points (part_000)
\* const prediction = await GroupPrediction.findOne({user, group: g}); the points
\* against the standings the caller gives; oldPoints = prediction.pointsAwarded || 0
calculateGroupPoints(p, u, g, first, second, third) ==
  /\ Begin(p, [op |-> "calculateGroupPoints", user |-> u, group |-> g,
               standings |-> [first |-> first, second |-> second, third |-> third]])
  /\ LET prediction == groupPreds[<<u, g>>]
         standings == [first |-> first, second |-> second, third |-> third]
     IN IF ~prediction.exists
        THEN Respond(p, loc[p], 404)
        ELSE /\ pc' = [pc EXCEPT ![p] = "calcGroup_savePred"]
             /\ loc' = [loc EXCEPT ![p].gpreds[u] = prediction,
                                   ![p].points = groupPoints(prediction, standings),
                                   ![p].oldPoints = prediction.pointsAwarded]
  /\ UNCHANGED db

\* prediction.pointsAwarded = points; await prediction.save()
calcGroup_savePred(p) ==
  /\ pc[p] = "calcGroup_savePred"
  /\ LET u == req[p].user
         k == <<u, req[p].group>>
         prediction == loc[p].gpreds[u]
     IN IF ~Stored(groupPreds[k], prediction)
        THEN /\ Respond(p, loc[p], 500)
             /\ UNCHANGED groupPreds
        ELSE /\ groupPreds' = [groupPreds EXCEPT ![k] =
                                 SaveDoc(@, prediction,
                                         [prediction EXCEPT !.pointsAwarded = loc[p].points],
                                         {"pointsAwarded"})]
             /\ pc' = [pc EXCEPT ![p] = "calcGroup_findUser"]
             /\ loc' = [loc EXCEPT ![p].saved = {u}]
  /\ UNCHANGED <<matches, teams, matchPreds, knockoutPreds, tournamentPreds, users, req, ops, posts, last>>

\* const user = await User.findById(req.user._id)
calcGroup_findUser(p) ==
  /\ pc[p] = "calcGroup_findUser"
  /\ loc' = [loc EXCEPT ![p].user = users[req[p].user]]
  /\ pc' = [pc EXCEPT ![p] = "calcGroup_saveUser"]
  /\ UNCHANGED <<db, req, ops, posts, last>>

\* the save that adds the points without taking the previous ones off
calcGroup_saveUserAdding(p) ==
  /\ pc[p] = "calcGroup_saveUser"
  /\ LET u == req[p].user
         user == loc[p].user
     IN users' = [users EXCEPT ![u] =
                    SaveDoc(@, user,
                            [user EXCEPT !.totalPoints = user.totalPoints + loc[p].points],
                            {"totalPoints"})]
  /\ Respond(p, loc[p], 200)
  /\ UNCHANGED <<matches, teams, preds, req, ops, posts, last>>

\* user.totalPoints = (user.totalPoints || 0) - oldPoints + points; await user.save()
calcGroup_saveUser(p) ==
  /\ pc[p] = "calcGroup_saveUser"
  /\ LET u == req[p].user
         user == loc[p].user
     IN users' = [users EXCEPT ![u] =
                    SaveDoc(@, user,
                            [user EXCEPT !.totalPoints = user.totalPoints - loc[p].oldPoints + loc[p].points],
                            {"totalPoints"})]
  /\ Respond(p, loc[p], 200)
  /\ UNCHANGED <<matches, teams, preds, req, ops, posts, last>>

\* ---------------------- POST /api/predictions/groups/calculate-points (server.js)
\* const prediction = await GroupPrediction.findOne({user, group})
srvCalculateGroupPoints(p, u, g, first, second, third) ==
  /\ Begin(p, [op |-> "srvCalculateGroupPoints", user |-> u, group |-> g,
               standings |-> [first |-> first, second |-> second, third |-> third]])
  /\ LET prediction == groupPreds[<<u, g>>]
         standings == [first |-> first, second |-> second, third |-> third]
     IN IF ~prediction.exists
        THEN Respond(p, loc[p], 404)
        ELSE /\ pc' = [pc EXCEPT ![p] = "srvCalcGroup_savePred"]
             /\ loc' = [loc EXCEPT ![p].gpreds[u] = prediction,
                                   ![p].points = srvGroupPoints(prediction, standings)]
  /\ UNCHANGED db

\* prediction.pointsAwarded = points; await prediction.save()
srvCalcGroup_savePred(p) ==
  /\ pc[p] = "srvCalcGroup_savePred"
  /\ LET u == req[p].user
         k == <<u, req[p].group>>
         prediction == loc[p].gpreds[u]
     IN IF ~Stored(groupPreds[k], prediction)
        THEN /\ Respond(p, loc[p], 500)
             /\ UNCHANGED groupPreds
        ELSE /\ groupPreds' = [groupPreds EXCEPT ![k] =
                                 SaveDoc(@, prediction,
                                         [prediction EXCEPT !.pointsAwarded = loc[p].points],
                                         {"pointsAwarded"})]
             /\ pc' = [pc EXCEPT ![p] = "srvCalcGroup_findUser"]
             /\ loc' = [loc EXCEPT ![p].saved = {u}]
  /\ UNCHANGED <<matches, teams, matchPreds, knockoutPreds, tournamentPreds, users, req, ops, posts, last>>

\* const user = await User.findById(req.user._id)
srvCalcGroup_findUser(p) ==
  /\ pc[p] = "srvCalcGroup_findUser"
  /\ loc' = [loc EXCEPT ![p].user = users[req[p].user]]
  /\ pc' = [pc EXCEPT ![p] = "srvCalcGroup_saveUser"]
  /\ UNCHANGED <<db, req, ops, posts, last>>

\* user.totalPoints += points; await user.save()
srvCalcGroup_saveUser(p) ==
  /\ pc[p] = "srvCalcGroup_saveUser"
  /\ LET u == req[p].user
         user == loc[p].user
     IN users' = [users EXCEPT ![u] =
                    SaveDoc(@, user, [user EXCEPT !.totalPoints = user.totalPoints + loc[p].points],
                            {"totalPoints"})]
  /\ Respond(p, loc[p], 200)
  /\ UNCHANGED <<matches, teams, preds, req, ops, posts, last>>

\* ------------------------ POST /api/admin/recalculate-group-points (server.js)
\* const predictions = await GroupPrediction.find({group})
srvAdminRecalculateGroupPoints(p, g, first, second, third) ==
  /\ Begin(p, [op |-> "srvAdminRecalculateGroupPoints", group |-> g,
               standings |-> [first |-> first, second |-> second, third |-> third]])
  /\ LET owners == {u \in Users : groupPreds[<<u, g>>].exists}
     IN \E order \in Orders(owners) :
          LET l == [loc[p] EXCEPT !.gpreds = [u \in Users |-> groupPreds[<<u, g>>]],
                                  !.todo = order]
          IN IF order = << >>
             THEN Respond(p, l, 200)
             ELSE /\ pc' = [pc EXCEPT ![p] = "srvAdminGroup_savePred"]
                  /\ loc' = [loc EXCEPT ![p] = l]
  /\ UNCHANGED db

\* const oldPoints = prediction.pointsAwarded; prediction.pointsAwarded = points;
\* await prediction.save()
srvAdminGroup_savePred(p) ==
  /\ pc[p] = "srvAdminGroup_savePred"
  /\ LET u == Head(loc[p].todo)
         k == <<u, req[p].group>>
         prediction == loc[p].gpreds[u]
         points == srvGroupPoints(prediction, req[p].standings)
     IN IF ~Stored(groupPreds[k], prediction)
        THEN /\ Respond(p, loc[p], 500)
             /\ UNCHANGED groupPreds
        ELSE /\ groupPreds' = [groupPreds EXCEPT ![k] =
                                 SaveDoc(@, prediction, [prediction EXCEPT !.pointsAwarded = points],
                                         {"pointsAwarded"})]
             /\ pc' = [pc EXCEPT ![p] = "srvAdminGroup_findUser"]
             /\ loc' = [loc EXCEPT ![p].points = points,
                                   ![p].oldPoints = prediction.pointsAwarded,
                                   ![p].saved = @ \cup {u}]
  /\ UNCHANGED <<matches, teams, matchPreds, knockoutPreds, tournamentPreds, users, req, ops, posts, last>>

\* const user = await User.findById(prediction.user)
srvAdminGroup_findUser(p) ==
  /\ pc[p] = "srvAdminGroup_findUser"
  /\ loc' = [loc EXCEPT ![p].user = users[Head(loc[p].todo)]]
  /\ pc' = [pc EXCEPT ![p] = "srvAdminGroup_saveUser"]
  /\ UNCHANGED <<db, req, ops, posts, last>>

\* the step with user.totalPoints += points, as in server.js's calculate-points:
\* the step C3 must tell apart from srvAdminGroup_saveUser
srvAdminGroup_saveUserAdding(p) ==
  /\ pc[p] = "srvAdminGroup_saveUser"
  /\ LET u == Head(loc[p].todo)
         user == loc[p].user
         l == [loc[p] EXCEPT !.todo = Tail(@)]
     IN /\ users' = [users EXCEPT ![u] =
                       SaveDoc(@, user, [user EXCEPT !.totalPoints = user.totalPoints + loc[p].points],
                               {"totalPoints"})]
        /\ IF l.todo = << >>
           THEN Respond(p, l, 200)
           ELSE /\ pc' = [pc EXCEPT ![p] = "srvAdminGroup_savePred"]
                /\ loc' = [loc EXCEPT ![p] = l]
  /\ UNCHANGED <<matches, teams, preds, req, ops, posts, last>>

\* user.totalPoints = user.totalPoints - oldPoints + points; await user.save();
\* then the next prediction, or the response
srvAdminGroup_saveUser(p) ==
  /\ pc[p] = "srvAdminGroup_saveUser"
  /\ LET u == Head(loc[p].todo)
         user == loc[p].user
         l == [loc[p] EXCEPT !.todo = Tail(@)]
     IN /\ users' = [users EXCEPT ![u] =
                       SaveDoc(@, user,
                               [user EXCEPT !.totalPoints = user.totalPoints - loc[p].oldPoints + loc[p].points],
                               {"totalPoints"})]
        /\ IF l.todo = << >>
           THEN Respond(p, l, 200)
           ELSE /\ pc' = [pc EXCEPT ![p] = "srvAdminGroup_savePred"]
                /\ loc' = [loc EXCEPT ![p] = l]
  /\ UNCHANGED <<matches, teams, preds, req, ops, posts, last>>

\* --------------------------------- GET /api/predictions/knockout/results
KnockoutPhases ==
  {"Round of 32", "Round of 16", "Quarter Finals", "Semi Finals", "Third Place", "Final"}

\* const phasePoints = {...}
phasePoints(stage) ==
  CASE stage = "Round of 32" -> 1
    [] stage = "Round of 16" -> 2
    [] stage = "Quarter Finals" -> 3
    [] stage = "Semi Finals" -> 5
    [] stage = "Third Place" -> 3
    [] stage = "Final" -> 10
    [] OTHER -> 1

\* populate of a path that refers to a team: null when the team is gone
PopulatedTeam(t) == IF t # NoRef /\ teams[t] THEN t ELSE NoRef

\* the phase stored on a match
Phase(m) == matches[m].phase

\* the filter of Match.find: the finished matches of the knockout phases
played(m) == matches[m].exists /\ Phase(m) \in KnockoutPhases /\ matches[m].status = "Finished"

\* the finished knockout matches as Match.find returns them, and with
\* homeTeam and awayTeam populated
PlayedMatches == [m \in Matches |-> IF played(m) THEN matches[m] ELSE NoMatch]
PopulatedTeams(docs) ==
  [m \in Matches |-> [docs[m] EXCEPT !.homeTeam = PopulatedTeam(@), !.awayTeam = PopulatedTeam(@)]]

\* winnerId of a populated match of played: null on a draw
realWinnerId(match) ==
  IF Num(match.homeScore) > Num(match.awayScore) THEN match.homeTeam
  ELSE IF Num(match.awayScore) > Num(match.homeScore) THEN match.awayTeam
  ELSE NoRef

\* populate of one path of a knockout prediction: match is null when the
\* prediction has none or the match is gone, predictedWinnerTeam when the team
\* is gone
populated(pred, path) ==
  IF path = "match"
  THEN IF pred.match # NoRef /\ matches[pred.match].exists THEN pred ELSE [pred EXCEPT !.match = NoRef]
  ELSE [pred EXCEPT !.predictedWinnerTeam = PopulatedTeam(@)]

\* one turn of the loop over the user's knockout predictions: isCorrect (true,
\* false or null) and pointsEarned of the populated prediction pred of a
\* stage, against the populated matches docs of played
knockoutEntry(pred, stage, docs) ==
  LET matchId == pred.match
      real == matchId # NoRef /\ docs[matchId].exists
  IN IF real /\ realWinnerId(docs[matchId]) # NoRef
     THEN IF pred.predictedWinnerTeam = realWinnerId(docs[matchId])
          THEN [isCorrect |-> "true", pointsEarned |-> phasePoints(stage)]
          ELSE [isCorrect |-> "false", pointsEarned |-> 0]
     ELSE [isCorrect |-> "null", pointsEarned |-> 0]

\* the entry of results for the prediction stored at key
\* k = <<user, <<stage, matchOrder>>>>, on the documents stored now
knockoutResult(k) ==
  knockoutEntry(populated(populated(knockoutPreds[k], "match"), "predictedWinnerTeam"),
                k[2][1], PopulatedTeams(PlayedMatches))

\* a request that reads only starts: it counts for no bound, since it
\* leaves the database as it is
BeginGet(p, r) ==
  /\ pc[p] = "idle"
  /\ req' = [req EXCEPT ![p] = r]
  /\ last' = NoLast
  /\ UNCHANGED <<ops, posts>>

\* const preds = await KnockoutPrediction.find({user})
getKnockoutResults(p, u) ==
  /\ BeginGet(p, [op |-> "getKnockoutResults", user |-> u])
  /\ loc' = [loc EXCEPT ![p].kpreds = [s \in Slots |-> knockoutPreds[<<u, s>>]],
                        ![p].paths = {"predictedWinnerTeam", "match"}]
  /\ pc' = [pc EXCEPT ![p] = "knockoutResults_populate"]
  /\ UNCHANGED db

\* .populate('predictedWinnerTeam').populate('match'): one query for each
\* path, sent together, served in either order
knockoutResults_populate(p) ==
  /\ pc[p] = "knockoutResults_populate"
  /\ \E path \in loc[p].paths :
       /\ loc' = [loc EXCEPT ![p].kpreds = [s \in Slots |-> populated(loc[p].kpreds[s], path)],
                             ![p].paths = @ \ {path}]
       /\ pc' = [pc EXCEPT ![p] = IF loc[p].paths = {path} THEN "knockoutResults_played"
                                  ELSE "knockoutResults_populate"]
  /\ UNCHANGED <<db, req, ops, posts, last>>

\* const played = await Match.find({phase: {$in: [...]}, status: 'Finished'})
knockoutResults_played(p) ==
  /\ pc[p] = "knockoutResults_played"
  /\ loc' = [loc EXCEPT ![p].played = PlayedMatches]
  /\ pc' = [pc EXCEPT ![p] = "knockoutResults_teams"]
  /\ UNCHANGED <<db, req, ops, posts, last>>

\* .populate('homeTeam awayTeam'); realById, the loop over preds and the
\* response. The loop over played reads _id of the team that won: a TypeError
\* when populate has left null there, and the response is 500
knockoutResults_teams(p) ==
  /\ pc[p] = "knockoutResults_teams"
  /\ LET docs == PopulatedTeams(loc[p].played)
         thrown == \E m \in Matches :
                     /\ docs[m].exists
                     /\ Num(docs[m].homeScore) # Num(docs[m].awayScore)
                     /\ realWinnerId(docs[m]) = NoRef
         listed == {s \in Slots : loc[p].kpreds[s].exists}
         entry == [s \in Slots |-> knockoutEntry(loc[p].kpreds[s], s[1], docs)]
         results == [s \in Slots |->
                      IF s \in listed
                      THEN [listed |-> TRUE, isCorrect |-> entry[s].isCorrect,
                            pointsEarned |-> entry[s].pointsEarned]
                      ELSE NoResult]
     IN IF thrown
        THEN Respond(p, loc[p], 500)
        ELSE Respond(p, [loc[p] EXCEPT !.results = results,
                                       !.correctPredictions =
                                          Cardinality({s \in listed : entry[s].isCorrect = "true"}),
                                       !.pointsFromKnockout =
                                          SumOver([s \in Slots |-> entry[s].pointsEarned], listed)],
                     200)
  /\ UNCHANGED <<db, req, ops, posts, last>>

\* --------------------------------------------------- GET /api/points-system
\* the knockout row of the rule table, by the stage each key stands for
pointsSystemKnockout(stage) ==
  CASE stage = "Round of 32" -> 1      \* round32
    [] stage = "Round of 16" -> 2      \* round16
    [] stage = "Quarter Finals" -> 3   \* quarters
    [] stage = "Semi Finals" -> 5      \* semis
    [] stage = "Third Place" -> 3      \* thirdPlace
    [] stage = "Final" -> 10           \* final

\* ------------------------------------- upserts inside the database server
\* findOneAndUpdate with upsert: true matches a document and updates it in one
\* step, or matches none and then inserts one; another command may be served
\* between the two. The insert goes through the unique index of the
\* collection; an insert the index rejects is retried by the server as an
\* update, or fails with a duplicate key error (the handler answers 500).

\* a collection without the index accepts every insert
NoUniqueIndex(copies) == TRUE

\* Schema.index({...}, {unique: true}): an insert is accepted when no stored
\* document has its key
UniqueIndex(copies) == copies = 0

\* the slot after the insert of document fresh next to what it holds
Inserted(cur, fresh) == [fresh EXCEPT !.exists = TRUE, !.copies = cur.copies + 1]

\* POST /api/predictions/match, from the upsert on: the query of the upsert
postMatchPrediction_query(p) ==
  /\ pc[p] = "postMatchPrediction_upsert"
  /\ LET k == <<req[p].user, req[p].match>>
     IN IF matchPreds[k].exists
        THEN /\ matchPreds' = [matchPreds EXCEPT ![k] =
                                 [@ EXCEPT !.homeGoalsPred = req[p].homeGoalsPred,
                                           !.awayGoalsPred = req[p].awayGoalsPred,
                                           !.winnerPred = req[p].winnerPred]]
             /\ Respond(p, loc[p], 201)
        ELSE /\ pc' = [pc EXCEPT ![p] = "postMatchPrediction_insert"]
             /\ loc' = [loc EXCEPT ![p].missed = TRUE]
             /\ UNCHANGED matchPreds
  /\ UNCHANGED <<matches, teams, groupPreds, knockoutPreds, tournamentPreds, users, req, ops, posts, last>>

\* the insert of the upsert, under the index {user, match}
postMatchPrediction_insert(p) ==
  /\ pc[p] = "postMatchPrediction_insert"
  /\ LET k == <<req[p].user, req[p].match>>
         cur == matchPreds[k]
         fields == [homeGoalsPred |-> req[p].homeGoalsPred, awayGoalsPred |-> req[p].awayGoalsPred,
                    winnerPred |-> req[p].winnerPred]
     IN IF UniqueIndex(cur.copies)
        THEN /\ matchPreds' = [matchPreds EXCEPT ![k] =
                                 Inserted(cur, [NoMatchPred(cur.id + 1) EXCEPT
                                                  !.homeGoalsPred = fields.homeGoalsPred,
                                                  !.awayGoalsPred = fields.awayGoalsPred,
                                                  !.winnerPred = fields.winnerPred])]
             /\ Respond(p, loc[p], 201)
        ELSE \/ /\ matchPreds' = [matchPreds EXCEPT ![k] =
                                    [@ EXCEPT !.homeGoalsPred = fields.homeGoalsPred,
                                              !.awayGoalsPred = fields.awayGoalsPred,
                                              !.winnerPred = fields.winnerPred]]
                /\ Respond(p, loc[p], 201)
             \/ /\ UNCHANGED matchPreds
                /\ Respond(p, loc[p], 500)
  /\ UNCHANGED <<matches, teams, groupPreds, knockoutPreds, tournamentPreds, users, req, ops, posts, last>>

\* POST /api/predictions/group: the query of the upsert
postGroupPrediction_query(p, u, g, first, second, third) ==
  /\ BeginPost(p, [op |-> "postGroupPrediction", user |-> u, group |-> g,
               firstPlaceTeam |-> first, secondPlaceTeam |-> second, thirdPlaceTeam |-> third])
  /\ LET k == <<u, g>>
     IN IF groupPreds[k].exists
        THEN /\ groupPreds' = [groupPreds EXCEPT ![k] =
                                 [@ EXCEPT !.firstPlaceTeam = first, !.secondPlaceTeam = second,
                                           !.thirdPlaceTeam = third]]
             /\ Respond(p, loc[p], 201)
        ELSE /\ pc' = [pc EXCEPT ![p] = "postGroupPrediction_insert"]
             /\ loc' = [loc EXCEPT ![p].missed = TRUE]
             /\ UNCHANGED groupPreds
  /\ UNCHANGED <<matches, teams, matchPreds, knockoutPreds, tournamentPreds, users>>

\* the insert of the upsert, under the index {user, group}
postGroupPrediction_insert(p) ==
  /\ pc[p] = "postGroupPrediction_insert"
  /\ LET k == <<req[p].user, req[p].group>>
         cur == groupPreds[k]
     IN IF UniqueIndex(cur.copies)
        THEN /\ groupPreds' = [groupPreds EXCEPT ![k] =
                                 Inserted(cur, [NoGroupPred(cur.id + 1) EXCEPT
                                                  !.firstPlaceTeam = req[p].firstPlaceTeam,
                                                  !.secondPlaceTeam = req[p].secondPlaceTeam,
                                                  !.thirdPlaceTeam = req[p].thirdPlaceTeam])]
             /\ Respond(p, loc[p], 201)
        ELSE \/ /\ groupPreds' = [groupPreds EXCEPT ![k] =
                                    [@ EXCEPT !.firstPlaceTeam = req[p].firstPlaceTeam,
                                              !.secondPlaceTeam = req[p].secondPlaceTeam,
                                              !.thirdPlaceTeam = req[p].thirdPlaceTeam]]
                /\ Respond(p, loc[p], 201)
             \/ /\ UNCHANGED groupPreds
                /\ Respond(p, loc[p], 500)
  /\ UNCHANGED <<matches, teams, matchPreds, knockoutPreds, tournamentPreds, users, req, ops, posts, last>>

\* POST /api/predictions/knockout: the query of the upsert
postKnockoutPrediction_query(p, u, slot, m, team) ==
  /\ BeginPost(p, [op |-> "postKnockoutPrediction", user |-> u, slot |-> slot, match |-> m,
               predictedWinnerTeam |-> team])
  /\ LET k == <<u, slot>>
     IN IF knockoutPreds[k].exists
        THEN /\ knockoutPreds' = [knockoutPreds EXCEPT ![k] =
                                    [@ EXCEPT !.match = m, !.predictedWinnerTeam = team]]
             /\ Respond(p, loc[p], 201)
        ELSE /\ pc' = [pc EXCEPT ![p] = "postKnockoutPrediction_insert"]
             /\ loc' = [loc EXCEPT ![p].missed = TRUE]
             /\ UNCHANGED knockoutPreds
  /\ UNCHANGED <<matches, teams, matchPreds, groupPreds, tournamentPreds, users>>

\* the insert of the upsert, under the index {user, stage, matchOrder}
postKnockoutPrediction_insert(p) ==
  /\ pc[p] = "postKnockoutPrediction_insert"
  /\ LET k == <<req[p].user, req[p].slot>>
         cur == knockoutPreds[k]
     IN IF UniqueIndex(cur.copies)
        THEN /\ knockoutPreds' = [knockoutPreds EXCEPT ![k] =
                                    Inserted(cur, [NoKnockoutPred(cur.id + 1) EXCEPT
                                                     !.match = req[p].match,
                                                     !.predictedWinnerTeam = req[p].predictedWinnerTeam])]
             /\ Respond(p, loc[p], 201)
        ELSE \/ /\ knockoutPreds' = [knockoutPreds EXCEPT ![k] =
                                       [@ EXCEPT !.match = req[p].match,
                                                 !.predictedWinnerTeam = req[p].predictedWinnerTeam]]
                /\ Respond(p, loc[p], 201)
             \/ /\ UNCHANGED knockoutPreds
                /\ Respond(p, loc[p], 500)
  /\ UNCHANGED <<matches, teams, matchPreds, groupPreds, tournamentPreds, users, req, ops, posts, last>>

\* POST /api/predictions/tournament: the query of the upsert
postTournamentPrediction_query(p, u, team) ==
  /\ BeginPost(p, [op |-> "postTournamentPrediction", user |-> u, championTeam |-> team])
  /\ IF tournamentPreds[u].exists
     THEN /\ tournamentPreds' = [tournamentPreds EXCEPT ![u] = [@ EXCEPT !.championTeam = team]]
          /\ Respond(p, loc[p], 201)
     ELSE /\ pc' = [pc EXCEPT ![p] = "postTournamentPrediction_insert"]
          /\ loc' = [loc EXCEPT ![p].missed = TRUE]
          /\ UNCHANGED tournamentPreds
  /\ UNCHANGED <<matches, teams, matchPreds, groupPreds, knockoutPreds, users>>

\* the insert of the upsert, under the unique index on user
postTournamentPrediction_insert(p) ==
  /\ pc[p] = "postTournamentPrediction_insert"
  /\ LET u == req[p].user
         cur == tournamentPreds[u]
     IN IF UniqueIndex(cur.copies)
        THEN /\ tournamentPreds' = [tournamentPreds EXCEPT ![u] =
                                      Inserted(cur, [NoTournamentPred(cur.id + 1) EXCEPT
                                                       !.championTeam = req[p].championTeam])]
             /\ Respond(p, loc[p], 201)
        ELSE \/ /\ tournamentPreds' = [tournamentPreds EXCEPT ![u] =
                                         [@ EXCEPT !.championTeam = req[p].championTeam]]
                /\ Respond(p, loc[p], 201)
             \/ /\ UNCHANGED tournamentPreds
                /\ Respond(p, loc[p], 500)
  /\ UNCHANGED <<matches, teams, matchPreds, groupPreds, knockoutPreds, users, req, ops, posts, last>>

\* ------------------------------------------ GET /api/leaderboard/my-position
\* the filter on totalPoints alone
isBetterByPoints(other, user) == other.totalPoints > user.totalPoints

\* the $or filter of betterUsers: document other ranks above the user read
isBetter(other, user) ==
  \/ other.totalPoints > user.totalPoints
  \/ other.totalPoints = user.totalPoints /\ other.correctScores > user.correctScores
  \/ /\ other.totalPoints = user.totalPoints
     /\ other.correctScores = user.correctScores
     /\ other.correctMatches > user.correctMatches

\* ------------------------------------------------ IEEE 754 double arithmetic
\* bits of the significand of a JavaScript number
Significand == 53
\* bits of a limb of the natural numbers the arithmetic is carried out on
LimbBits == 12
\* limbs after the point that hold the quotient of two counts to more bits
\* than a double keeps
QuotientLimbs == 6

\* Math.floor((1 - position / totalUsers) * 100), the fraction taken exactly
percentileFloored(position, totalUsers) ==
  IF totalUsers > 0 THEN ((totalUsers - position) * 100) \div totalUsers ELSE 0

\* totalUsers > 0 ? Math.round((1 - position / totalUsers) * 100) : 0
\* computed as the doubles of JavaScript compute it. A natural number is a
\* sequence of limbs of LimbBits bits, the least significant first, with no
\* zero limb at the high end. A double is [neg, n, f] of value
\* (-1)^neg * n / 2^f, with n of at most Significand bits.
percentile(position, totalUsers) ==
  LET Base == 2 ^ LimbBits
      RECURSIVE LimbsOf(_)
      LimbsOf(k) == IF k = 0 THEN << >> ELSE <<k % Base>> \o LimbsOf(k \div Base)
      RECURSIVE ValueOf(_)
      ValueOf(a) == IF a = << >> THEN 0 ELSE Head(a) + Base * ValueOf(Tail(a))
      Limb(a, i) == IF i >= 1 /\ i <= Len(a) THEN a[i] ELSE 0
      \* the limbs without the zeros at the high end
      Trim(a) ==
        LET used == {i \in 1 .. Len(a) : a[i] # 0}
        IN IF used = {} THEN << >>
           ELSE SubSeq(a, 1, CHOOSE i \in used : \A j \in used : j <= i)
      Longest(a, b) == IF Len(a) > Len(b) THEN Len(a) ELSE Len(b)
      \* a + b
      RECURSIVE Carry(_, _, _)
      Carry(a, b, i) ==
        IF i = 0 THEN 0 ELSE (Limb(a, i) + Limb(b, i) + Carry(a, b, i - 1)) \div Base
      AddLimbs(a, b) ==
        Trim([i \in 1 .. Longest(a, b) + 1 |->
                (Limb(a, i) + Limb(b, i) + Carry(a, b, i - 1)) % Base])
      \* a - b, for a >= b
      RECURSIVE Borrow(_, _, _)
      Borrow(a, b, i) ==
        IF i = 0 THEN 0
        ELSE IF Limb(a, i) - Limb(b, i) - Borrow(a, b, i - 1) < 0 THEN 1 ELSE 0
      SubLimbs(a, b) ==
        Trim([i \in 1 .. Len(a) |->
                (Limb(a, i) - Limb(b, i) - Borrow(a, b, i - 1) + Base) % Base])
      \* a < b
      LessLimbs(a, b) == Borrow(a, b, Longest(a, b)) = 1
      \* a * m, for 0 < m < Base
      RECURSIVE Over(_, _, _)
      Over(a, m, i) == IF i = 0 THEN 0 ELSE (Limb(a, i) * m + Over(a, m, i - 1)) \div Base
      MulLimbs(a, m) ==
        Trim([i \in 1 .. Len(a) + 1 |-> (Limb(a, i) * m + Over(a, m, i - 1)) % Base])
      \* a * 2^k and floor(a / 2^k)
      ShiftLeft(a, k) ==
        LET u == k \div LimbBits
            v == k % LimbBits
        IN Trim([i \in 1 .. Len(a) + u + 1 |->
                   ((Limb(a, i - u) * (2 ^ v)) % Base)
                   + (Limb(a, i - u - 1) \div (2 ^ (LimbBits - v)))])
      ShiftRight(a, k) ==
        LET u == k \div LimbBits
            v == k % LimbBits
        IN Trim([i \in 1 .. Len(a) |->
                   (Limb(a, i + u) \div (2 ^ v))
                   + ((Limb(a, i + u + 1) % (2 ^ v)) * (2 ^ (LimbBits - v)))])
      \* the number of bits of a, and bit i of a (bit 1 the lowest)
      BitLength(a) ==
        IF a = << >> THEN 0
        ELSE LimbBits * (Len(a) - 1)
             + (CHOOSE w \in 1 .. LimbBits : a[Len(a)] \div (2 ^ (w - 1)) = 1)
      BitAt(a, i) == (Limb(a, ((i - 1) \div LimbBits) + 1) \div (2 ^ ((i - 1) % LimbBits))) % 2
      \* the nearest double of n / 2^f, ties to the even significand
      RoundToDouble(neg, n, f) ==
        LET drop == BitLength(n) - Significand
            kept == ShiftRight(n, drop)
            sticky == \E i \in 1 .. drop - 1 : BitAt(n, i) = 1
            up == BitAt(n, drop) = 1 /\ (sticky \/ BitAt(kept, 1) = 1)
            rounded == IF up THEN AddLimbs(kept, <<1>>) ELSE kept
        IN IF drop <= 0 THEN [neg |-> neg, n |-> n, f |-> f]
           ELSE IF BitLength(rounded) > Significand
           THEN [neg |-> neg, n |-> ShiftRight(rounded, 1), f |-> f - drop - 1]
           ELSE [neg |-> neg, n |-> rounded, f |-> f - drop]
      \* the first k limbs of r / d after the point (r < d), the last of them
      \* first, and the remainder they leave
      RECURSIVE Digits(_, _, _)
      Digits(r, d, k) ==
        IF k = 0 THEN << >> ELSE Digits((Base * r) % d, d, k - 1) \o <<(Base * r) \div d>>
      RECURSIVE Remainder(_, _, _)
      Remainder(r, d, k) == IF k = 0 THEN r ELSE Remainder((Base * r) % d, d, k - 1)
      \* a / b of two doubles that hold the integers a >= 0 and b > 0: the
      \* quotient to QuotientLimbs limbs after the point, one more bit that
      \* tells whether anything is left, then rounded
      Divide(a, b) ==
        LET quotient == Trim(Digits(a % b, b, QuotientLimbs) \o LimbsOf(a \div b))
            left == IF Remainder(a % b, b, QuotientLimbs) = 0 THEN << >> ELSE <<1>>
        IN RoundToDouble(FALSE, AddLimbs(ShiftLeft(quotient, 1), left),
                         LimbBits * QuotientLimbs + 1)
      \* 1 - x, for a double x >= 0
      OneMinus(x) ==
        LET one == ShiftLeft(<<1>>, x.f)
        IN IF LessLimbs(one, x.n)
           THEN RoundToDouble(TRUE, SubLimbs(x.n, one), x.f)
           ELSE RoundToDouble(FALSE, SubLimbs(one, x.n), x.f)
      \* x * 100
      Times100(x) == RoundToDouble(x.neg, MulLimbs(x.n, 100), x.f)
      \* Math.floor(x), for a double x with f >= 0
      MathFloor(x) ==
        LET whole == ValueOf(ShiftRight(x.n, x.f))
            fraction == \E i \in 1 .. x.f : BitAt(x.n, i) = 1
        IN IF x.neg THEN 0 - whole - (IF fraction THEN 1 ELSE 0) ELSE whole
      \* Math.round(x): the integer nearest to x, the one toward +Infinity of
      \* two equally near, that is floor(x + 0.5) without rounding; for f >= 1
      MathRound(x) ==
        LET half == ShiftLeft(<<1>>, x.f - 1)
        IN IF ~x.neg THEN MathFloor([neg |-> FALSE, n |-> AddLimbs(x.n, half), f |-> x.f])
           ELSE IF ~LessLimbs(half, x.n) THEN 0
           ELSE MathFloor([neg |-> TRUE, n |-> SubLimbs(x.n, half), f |-> x.f])
  IN IF totalUsers > 0 THEN MathRound(Times100(OneMinus(Divide(position, totalUsers)))) ELSE 0

\* the percentile of every position and every count of users with points
\* that the users of the model give, computed once. betterUsers counts the
\* documents stored when it is read, the user's own included when its
\* aggregates have risen since findById, so position reaches the number of
\* users plus one.
Percentiles ==
  [position \in 1 .. Cardinality(Users) + 1, totalUsers \in 0 .. Cardinality(Users) |->
     percentile(position, totalUsers)]

\* const user = await User.findById(req.user._id)
getMyPosition(p, u) ==
  /\ Begin(p, [op |-> "getMyPosition", user |-> u])
  /\ loc' = [loc EXCEPT ![p].user = users[u]]
  /\ pc' = [pc EXCEPT ![p] = "myPosition_better"]
  /\ UNCHANGED db

\* the same route of server.js: the same statements
srvGetMyPosition(p, u) ==
  /\ Begin(p, [op |-> "srvGetMyPosition", user |-> u])
  /\ loc' = [loc EXCEPT ![p].user = users[u]]
  /\ pc' = [pc EXCEPT ![p] = "myPosition_better"]
  /\ UNCHANGED db

\* const betterUsers = await User.countDocuments({$or: [...]})
myPosition_better(p) ==
  /\ pc[p] = "myPosition_better"
  /\ loc' = [loc EXCEPT ![p].betterUsers =
                          Cardinality({o \in Users : isBetter(users[o], loc[p].user)})]
  /\ pc' = [pc EXCEPT ![p] = "myPosition_total"]
  /\ UNCHANGED <<db, req, ops, posts, last>>

\* const position = betterUsers + 1; const totalUsers = await
\* User.countDocuments({totalPoints: {$gt: 0}}); the response
myPosition_total(p) ==
  /\ pc[p] = "myPosition_total"
  /\ LET position == loc[p].betterUsers + 1
         totalUsers == Cardinality({o \in Users : users[o].totalPoints > 0})
     IN Respond(p, [loc[p] EXCEPT !.position = position,
                                  !.totalUsers = totalUsers,
                                  !.percentile = Percentiles[position, totalUsers]],
                200)
  /\ UNCHANGED <<db, req, ops, posts, last>>

\* ------------------------------------------------------ GET /api/leaderboard
\* the sort on totalPoints alone
sortsBeforeByPoints(a, b) == a.totalPoints > b.totalPoints

\* sort({totalPoints: -1, correctScores: -1, correctMatches: -1}): document a
\* sorts before document b
sortsBefore(a, b) ==
  \/ a.totalPoints > b.totalPoints
  \/ a.totalPoints = b.totalPoints /\ a.correctScores > b.correctScores
  \/ /\ a.totalPoints = b.totalPoints
     /\ a.correctScores = b.correctScores
     /\ a.correctMatches > b.correctMatches

\* the orders the sorted find may return: documents equal in the three keys
\* come in any order
SortedOrders ==
  {order \in Orders(Users) :
     \A i, j \in 1 .. Len(order) : i < j => ~sortsBefore(users[order[j]], users[order[i]])}

\* .skip(skip).limit(limit) of a sorted order
Page(order, skip, limit) ==
  [i \in 1 .. (IF Len(order) - skip > limit THEN limit
               ELSE IF Len(order) > skip THEN Len(order) - skip ELSE 0) |-> order[skip + i]]

\* Math.ceil(n / d), d > 0
MathCeil(n, d) == (n + d - 1) \div d

\* const users = await User.find({}).sort(...).skip(skip).limit(limit).select(...)
getLeaderboard(p, page, limit) ==
  /\ Begin(p, [op |-> "getLeaderboard", page |-> page, limit |-> limit])
  /\ \E order \in SortedOrders :
       LET slice == Page(order, (page - 1) * limit, limit)
       IN loc' = [loc EXCEPT ![p].found =
                    [i \in 1 .. Len(slice) |->
                       [user |-> slice[i],
                        totalPoints |-> users[slice[i]].totalPoints,
                        correctMatches |-> users[slice[i]].correctMatches,
                        correctScores |-> users[slice[i]].correctScores]]]
  /\ pc' = [pc EXCEPT ![p] = "leaderboard_count"]
  /\ UNCHANGED db

\* const totalUsers = await User.countDocuments({}); position: skip + i + 1 of
\* every user found; the response
leaderboard_count(p) ==
  /\ pc[p] = "leaderboard_count"
  /\ LET skip == (req[p].page - 1) * req[p].limit
         found == loc[p].found
         totalUsers == Cardinality(Users)
     IN Respond(p, [loc[p] EXCEPT !.board =
                                     [i \in 1 .. Len(found) |->
                                        [position |-> skip + i,
                                         user |-> found[i].user,
                                         totalPoints |-> found[i].totalPoints,
                                         correctMatches |-> found[i].correctMatches,
                                         correctScores |-> found[i].correctScores]],
                                  !.totalPages = MathCeil(totalUsers, req[p].limit),
                                  !.totalUsers = totalUsers],
                200)
  /\ UNCHANGED <<db, req, ops, posts, last>>

\* ------------------------------------------------------------ specification
Init ==
  /\ matches = SeededMatches
  /\ teams = [t \in Teams |-> TRUE]
  /\ matchPreds = [k \in Users \X Matches |-> NoMatchPred(0)]
  /\ groupPreds = [k \in Users \X Groups |-> NoGroupPred(0)]
  /\ knockoutPreds = [k \in Users \X Slots |-> NoKnockoutPred(0)]
  /\ tournamentPreds = [u \in Users |-> NoTournamentPred(0)]
  /\ users = [u \in Users |-> NewUser]
  /\ pc = [p \in Procs |-> "idle"]
  /\ req = [p \in Procs |-> NoReq]
  /\ loc = [p \in Procs |-> NoLoc]
  /\ ops = 0
  /\ posts = 0
  /\ last = NoLast

\* the steps of recalcUserTotals
Recalc(p) ==
  \/ recalc_findUser(p) \/ recalc_findGroup(p) \/ recalc_findMatch(p)
  \/ recalc_findKnockout(p) \/ recalc_findTournament(p) \/ recalc_save(p)

\* the steps of calculateMatchPointsForAllUsers
CalcMatch(p) == calc_findMatch(p) \/ calc_findPreds(p) \/ calc_savePred(p)

\* the steps of DELETE /api/matches/:id after the first
DeleteMatchSteps(p) == deleteMatch_preds(p) \/ deleteMatch_knockout(p)

\* the steps of part_000's calculate-points after the first
CalcGroupSteps(p) == calcGroup_savePred(p) \/ calcGroup_findUser(p) \/ calcGroup_saveUser(p)

\* the steps of server.js's group scoring routes after the first
SrvGroupSteps(p) ==
  \/ srvCalcGroup_savePred(p)
  \/ srvCalcGroup_findUser(p)
  \/ srvCalcGroup_saveUser(p)
  \/ srvAdminGroup_savePred(p)
  \/ srvAdminGroup_findUser(p)
  \/ srvAdminGroup_saveUser(p)

\* the requests, each with the inputs a client may send
\* first and second place of a group: two different teams
TopTwo == {fs \in Teams \X Teams : fs[1] # fs[2]}

AdminPutMatch(p) ==
  \E m \in Seeded, hs \in Scores, as \in Scores, st \in Statuses : adminPutMatch(p, m, hs, as, st)
\* the administrator enters a final score
FinishMatch(p) ==
  \E m \in Seeded, hs \in Goals, as \in Goals : adminPutMatch(p, m, hs, as, "Finished")
\* a match of two different teams, with the phase of a final or with none
PostMatch(p) == \E ha \in TopTwo, phase \in {"Final", Undefined} : postMatch(p, ha[1], ha[2], phase)
DeleteMatch(p) == \E m \in Matches : deleteMatch(p, m)
DeleteTeam(p) == \E t \in Teams : deleteTeam(p, t)
\* a prediction of 1-0, with the winner that fits it or one that does not
PostOneNil(p) ==
  \E u \in Predictors, m \in Seeded, w \in {"HOME", "DRAW"} : postMatchPrediction(p, u, m, 1, 0, w)
\* a prediction of 1-0 for the home team
UpsertMatch(p) == \E u \in Predictors, m \in Seeded : postMatchPrediction(p, u, m, 1, 0, "HOME")
DeleteMatchPrediction(p) == \E u \in Predictors, m \in Seeded : deleteMatchPrediction(p, u, m)
\* a prediction of the final
PostFinalPrediction(p) ==
  \E u \in Predictors, m \in Seeded \cup {NoRef}, team \in Teams :
    postKnockoutPrediction(p, u, <<"Final", 1>>, m, team)
DeleteKnockoutPredictions(p) == \E u \in Predictors : deleteKnockoutPredictions(p, u)
GetKnockoutResults(p) == \E u \in Predictors : getKnockoutResults(p, u)
KnockoutResultsSteps(p) ==
  knockoutResults_populate(p) \/ knockoutResults_played(p) \/ knockoutResults_teams(p)
GetMyPosition(p) == \E u \in Users : getMyPosition(p, u)
SrvGetMyPosition(p) == \E u \in Users : srvGetMyPosition(p, u)
GetLeaderboard(p) == \E page \in 1 .. MaxPage, limit \in 1 .. MaxLimit : getLeaderboard(p, page, limit)
PostGroupPrediction(p) ==
  \E u \in Predictors, g \in Groups, fs \in TopTwo, third \in Teams \cup {NoRef} :
    postGroupPrediction(p, u, g, fs[1], fs[2], third)
\* a bulk request of one entry, or of the entries of the keys a and A; the
\* places of an entry: two teams, one team twice, one team twice and a third,
\* no first place
PostGroupBulk(p) ==
  LET places == {<<"t1", "t2", NoRef>>, <<"t1", "t1", NoRef>>, <<"t1", "t1", "t2">>,
                 <<NoRef, "t2", NoRef>>}
      entry(key, fst) == [key |-> key, first |-> fst[1], second |-> fst[2], third |-> fst[3]]
      bodies == {<<entry(key, fst)>> : key \in {"a", "A", "M"}, fst \in places}
                \cup {<<entry("a", x), entry("A", y)>> : x \in places, y \in places}
  IN \E u \in Predictors, body \in bodies : postGroupBulk(p, u, body)
BulkSteps(p) == bulk_findTeams(p) \/ bulk_upsert(p)
DeleteGroupPrediction(p) == \E u \in Predictors, g \in Groups : deleteGroupPrediction(p, u, g)
PostTournamentPrediction(p) == \E u \in Predictors, team \in Teams : postTournamentPrediction(p, u, team)
DeleteTournamentPrediction(p) == \E u \in Predictors : deleteTournamentPrediction(p, u)
AdminRecalculateGroupPoints(p) ==
  \E g \in Groups, fs \in TopTwo, third \in Places :
    adminRecalculateGroupPoints(p, g, fs[1], fs[2], third)
CalculateGroupPoints(p) ==
  \E u \in Predictors, g \in Groups, fs \in TopTwo, third \in Places :
    calculateGroupPoints(p, u, g, fs[1], fs[2], third)
SrvCalculateGroupPoints(p) ==
  \E u \in Predictors, g \in Groups, fs \in TopTwo, third \in Places :
    srvCalculateGroupPoints(p, u, g, fs[1], fs[2], third)
SrvAdminRecalculateGroupPoints(p) ==
  \E g \in Groups, fs \in TopTwo, third \in Places :
    srvAdminRecalculateGroupPoints(p, g, fs[1], fs[2], third)

\* the whole server: every request with the inputs a client may send, the
\* requests in flight interleaved
Next ==
  \E p \in Procs :
    \/ AdminPutMatch(p) \/ DeleteMatch(p)
    \/ \E m \in Matches, hs \in Scores, as \in Scores, st \in Statuses,
          phase \in Phases \cup {Undefined} : putMatch(p, m, hs, as, st, phase)
    \/ PostMatch(p) \/ postMatch_find(p) \/ DeleteTeam(p) \/ deleteTeam_delete(p)
    \/ \E u \in Predictors, m \in Matches, hg \in Goals, ag \in Goals, w \in Winners :
         postMatchPrediction(p, u, m, hg, ag, w)
    \/ DeleteMatchPrediction(p)
    \/ \E u \in Predictors, slot \in Slots, m \in Matches \cup {NoRef}, team \in Teams :
         postKnockoutPrediction(p, u, slot, m, team)
    \/ DeleteKnockoutPredictions(p)
    \/ PostGroupPrediction(p) \/ PostGroupBulk(p) \/ BulkSteps(p) \/ DeleteGroupPrediction(p)
    \/ PostTournamentPrediction(p) \/ DeleteTournamentPrediction(p)
    \/ AdminRecalculateGroupPoints(p) \/ CalculateGroupPoints(p)
    \/ SrvCalculateGroupPoints(p) \/ SrvAdminRecalculateGroupPoints(p)
    \/ calculateAllPoints(p)
    \/ GetKnockoutResults(p) \/ KnockoutResultsSteps(p)
    \/ GetMyPosition(p) \/ SrvGetMyPosition(p) \/ myPosition_better(p) \/ myPosition_total(p)
    \/ GetLeaderboard(p) \/ leaderboard_count(p)
    \/ CalcMatch(p) \/ postMatchPrediction_upsert(p) \/ DeleteMatchSteps(p)
    \/ adminGroup_savePred(p) \/ CalcGroupSteps(p) \/ SrvGroupSteps(p)
    \/ Recalc(p) \/ Return(p)
Spec == Init /\ [][Next]_vars

\* one request at a time, each served to its response before the next arrives:
\* the match, its updates by either route (the phase of a final given or not),
\* match predictions of 1-0 and predictions of the final
SpecMatchSeq ==
  Init
  /\ [][\/ AdminPutMatch(1) \/ DeleteMatch(1)
        \/ \E m \in Seeded, hs \in Scores, as \in Scores, st \in Statuses,
              phase \in {"Final", Undefined} : putMatch(1, m, hs, as, st, phase)
        \/ PostOneNil(1) \/ DeleteMatchPrediction(1)
        \/ PostFinalPrediction(1) \/ DeleteKnockoutPredictions(1)
        \/ calculateAllPoints(1)
        \/ CalcMatch(1) \/ postMatchPrediction_upsert(1) \/ DeleteMatchSteps(1)
        \/ Recalc(1) \/ Return(1)]_vars

\* one request at a time: group and tournament predictions, scored by the
\* routes of part_000 and of server.js
SpecGroupSeq ==
  Init
  /\ [][\/ PostGroupPrediction(1) \/ DeleteGroupPrediction(1)
        \/ PostTournamentPrediction(1) \/ DeleteTournamentPrediction(1)
        \/ AdminRecalculateGroupPoints(1) \/ CalculateGroupPoints(1)
        \/ SrvCalculateGroupPoints(1) \/ SrvAdminRecalculateGroupPoints(1)
        \/ calculateAllPoints(1)
        \/ adminGroup_savePred(1) \/ CalcGroupSteps(1) \/ SrvGroupSteps(1)
        \/ Recalc(1) \/ Return(1)]_vars

\* one request at a time: predictions of the four kinds, the results the
\* administrator enters and the recomputation of every user
SpecResultsSeq ==
  Init
  /\ [][\/ PostOneNil(1) \/ PostGroupPrediction(1)
        \/ PostFinalPrediction(1) \/ PostTournamentPrediction(1)
        \/ FinishMatch(1) \/ AdminRecalculateGroupPoints(1) \/ SrvAdminRecalculateGroupPoints(1)
        \/ calculateAllPoints(1)
        \/ CalcMatch(1) \/ postMatchPrediction_upsert(1) \/ adminGroup_savePred(1)
        \/ srvAdminGroup_savePred(1) \/ srvAdminGroup_findUser(1) \/ srvAdminGroup_saveUser(1)
        \/ Recalc(1) \/ Return(1)]_vars

\* two requests in flight: match predictions, their deletion, the final scores
\* and the recomputation of every user
SpecMatchConc ==
  Init
  /\ [][\E p \in Procs :
          \/ UpsertMatch(p) \/ DeleteMatchPrediction(p)
          \/ FinishMatch(p) \/ calculateAllPoints(p)
          \/ CalcMatch(p) \/ postMatchPrediction_upsert(p)
          \/ Recalc(p) \/ Return(p)]_vars

\* one request at a time: group predictions of any two teams, the same team
\* twice included (the handler checks only that both are given), the bulk
\* request and the two group scoring routes of part_000
SpecGroupScore ==
  Init
  /\ [][\/ \E u \in Predictors, g \in Groups, first \in Teams, second \in Teams,
               third \in Teams \cup {NoRef} : postGroupPrediction(1, u, g, first, second, third)
        \/ PostGroupBulk(1) \/ BulkSteps(1)
        \/ AdminRecalculateGroupPoints(1) \/ CalculateGroupPoints(1)
        \/ adminGroup_savePred(1) \/ CalcGroupSteps(1)
        \/ Recalc(1) \/ Return(1)]_vars

\* one request at a time: knockout predictions of one user, of every stage,
\* linked to a match; matches created, given a final score with or without a
\* phase, and deleted; teams deleted; the comparison of predictions and
\* results
SpecKnockoutSeq ==
  Init
  /\ [][\/ \E slot \in Slots, m \in Matches, team \in Teams :
             postKnockoutPrediction(1, "u1", slot, m, team)
        \/ \E m \in Matches, hs \in Goals, as \in Goals, phase \in Phases \cup {Undefined} :
             putMatch(1, m, hs, as, "Finished", phase)
        \/ DeleteMatch(1) \/ DeleteMatchSteps(1)
        \/ PostMatch(1) \/ postMatch_find(1) \/ DeleteTeam(1) \/ deleteTeam_delete(1)
        \/ GetKnockoutResults(1) \/ KnockoutResultsSteps(1)
        \/ Return(1)]_vars

\* one request at a time: match predictions, the final scores and the
\* recomputation of every user
SpecRecalcSeq ==
  Init
  /\ [][\/ PostOneNil(1) \/ FinishMatch(1) \/ calculateAllPoints(1)
        \/ CalcMatch(1) \/ postMatchPrediction_upsert(1)
        \/ Recalc(1) \/ Return(1)]_vars

\* The start of a server whose schedule holds two matches: seedInitialMatches
\* creates one scheduled match of the group stage for each entry of
\* OFFICIAL_MATCHES_SEED.
InitTwoMatches ==
  /\ matches = [m \in Matches |->
                  IF m \in Seeded THEN SeededMatches[m]
                  ELSE [NewMatch EXCEPT !.homeTeam = "t2", !.awayTeam = "t1"]]
  /\ teams = [t \in Teams |-> TRUE]
  /\ matchPreds = [k \in Users \X Matches |-> NoMatchPred(0)]
  /\ groupPreds = [k \in Users \X Groups |-> NoGroupPred(0)]
  /\ knockoutPreds = [k \in Users \X Slots |-> NoKnockoutPred(0)]
  /\ tournamentPreds = [u \in Users |-> NoTournamentPred(0)]
  /\ users = [u \in Users |-> NewUser]
  /\ pc = [p \in Procs |-> "idle"]
  /\ req = [p \in Procs |-> NoReq]
  /\ loc = [p \in Procs |-> NoLoc]
  /\ ops = 0
  /\ posts = 0
  /\ last = NoLast

\* one request at a time on a schedule of two matches: predictions of 1-0 on
\* either match, with the winner that fits the score or a draw, their
\* deletion, the final scores of either match and the recomputation of every
\* user
SpecCountSeq ==
  InitTwoMatches
  /\ [][\/ \E u \in Predictors, m \in Matches, w \in {"HOME", "DRAW"} :
             postMatchPrediction(1, u, m, 1, 0, w)
        \/ \E u \in Predictors, m \in Matches : deleteMatchPrediction(1, u, m)
        \/ \E m \in Matches, hs \in Goals, as \in Goals : adminPutMatch(1, m, hs, as, "Finished")
        \/ calculateAllPoints(1)
        \/ CalcMatch(1) \/ postMatchPrediction_upsert(1)
        \/ Recalc(1) \/ Return(1)]_vars

\* two requests in flight: the upserts of the four kinds of prediction,
\* followed inside the database server, and the deletions
SpecUpsertConc ==
  Init
  /\ [][\E p \in Procs :
          \/ UpsertMatch(p) \/ postMatchPrediction_query(p) \/ postMatchPrediction_insert(p)
          \/ \E u \in Predictors, g \in Groups : postGroupPrediction_query(p, u, g, "t1", "t2", NoRef)
          \/ postGroupPrediction_insert(p)
          \/ \E u \in Predictors : postKnockoutPrediction_query(p, u, <<"Final", 1>>, NoRef, "t1")
          \/ postKnockoutPrediction_insert(p)
          \/ \E u \in Predictors : postTournamentPrediction_query(p, u, "t1")
          \/ postTournamentPrediction_insert(p)
          \/ DeleteMatchPrediction(p) \/ DeleteGroupPrediction(p)
          \/ DeleteKnockoutPredictions(p) \/ DeleteTournamentPrediction(p)
          \/ Recalc(p) \/ Return(p)]_vars

\* user aggregates left by earlier scoring: the winner right in correctMatches
\* matches, the score too in correctScores of them, and the points of a group
\* prediction (none, a second place, a first place)
Aggregates ==
  {[totalPoints |-> CorrectWinnerPoints * t[1] + CorrectScorePoints * t[2] + t[3],
    correctMatches |-> t[1], correctScores |-> t[2]] :
     t \in {x \in (0 .. MaxCorrect) \X (0 .. MaxCorrect) \X {0, 3, 5} : x[2] <= x[1]}}

\* the server with the aggregates of its users already computed
InitRanking ==
  /\ users \in [Users -> Aggregates]
  /\ matches = SeededMatches
  /\ teams = [t \in Teams |-> TRUE]
  /\ matchPreds = [k \in Users \X Matches |-> NoMatchPred(0)]
  /\ groupPreds = [k \in Users \X Groups |-> NoGroupPred(0)]
  /\ knockoutPreds = [k \in Users \X Slots |-> NoKnockoutPred(0)]
  /\ tournamentPreds = [u \in Users |-> NoTournamentPred(0)]
  /\ pc = [p \in Procs |-> "idle"]
  /\ req = [p \in Procs |-> NoReq]
  /\ loc = [p \in Procs |-> NoLoc]
  /\ ops = 0
  /\ posts = 0
  /\ last = NoLast

\* the leaderboard asked by two clients at a time, page by page
SpecLeaderboard ==
  InitRanking /\ [][\E p \in Procs : GetLeaderboard(p) \/ leaderboard_count(p) \/ Return(p)]_vars

\* one request at a time: the position of a user, by either server
SpecPosition ==
  InitRanking
  /\ [][\/ GetMyPosition(1) \/ SrvGetMyPosition(1)
        \/ myPosition_better(1) \/ myPosition_total(1)
        \/ Return(1)]_vars

\* a match prediction as the upsert stores it: the first document of its key
PostedMatchPred(hg, ag, w) ==
  [NoMatchPred(1) EXCEPT !.exists = TRUE, !.copies = 1,
                         !.homeGoalsPred = hg, !.awayGoalsPred = ag, !.winnerPred = w]

\* The states a finalization leaves when it has scored only some of the
\* predictions of the match. Either save() threw on the second prediction,
\* deleted meanwhile (no recalcUserTotals has run, the handler answered 500),
\* or the second prediction was upserted after the find of the finalization
\* (the first is scored and its owner recomputed, the second holds the schema
\* defaults).
InitInterrupted ==
  /\ \E hs \in Goals, as \in Goals, u \in Predictors,
        hg \in Goals, ag \in Goals, w \in Winners :
       LET match == [SeededMatches["m1"] EXCEPT !.status = "Finished", !.homeScore = hs, !.awayScore = as]
           scored == ScoredMatchPred(PostedMatchPred(hg, ag, w), match)
           other == CHOOSE v \in Predictors : v # u
       IN /\ matches = [SeededMatches EXCEPT !["m1"] = match]
          /\ teams = [t \in Teams |-> TRUE]
          /\ \/ /\ matchPreds = [k \in Users \X Matches |->
                                 IF k = <<u, "m1">> THEN scored
                                 ELSE IF k = <<other, "m1">> THEN NoMatchPred(1)
                                 ELSE NoMatchPred(0)]
                /\ users = [v \in Users |-> NewUser]
             \/ \E hg2 \in Goals, ag2 \in Goals, w2 \in Winners :
                  /\ matchPreds = [k \in Users \X Matches |->
                                     IF k = <<u, "m1">> THEN scored
                                     ELSE IF k = <<other, "m1">> THEN PostedMatchPred(hg2, ag2, w2)
                                     ELSE NoMatchPred(0)]
                  /\ users = [v \in Users |->
                               IF v = u
                               THEN [totalPoints |-> scored.pointsAwarded,
                                     correctMatches |-> IF scored.isCorrectWinner THEN 1 ELSE 0,
                                     correctScores |-> IF scored.isCorrectScore THEN 1 ELSE 0]
                               ELSE NewUser]
  /\ groupPreds = [k \in Users \X Groups |-> NoGroupPred(0)]
  /\ knockoutPreds = [k \in Users \X Slots |-> NoKnockoutPred(0)]
  /\ tournamentPreds = [u \in Users |-> NoTournamentPred(0)]
  /\ pc = [p \in Procs |-> "idle"]
  /\ req = [p \in Procs |-> NoReq]
  /\ loc = [p \in Procs |-> NoLoc]
  /\ ops = 0
  /\ posts = 0
  /\ last = NoLast

\* one request at a time: final scores entered once and again on a match of
\* which only some predictions are scored
ServeFinalize(p) == FinishMatch(p) \/ CalcMatch(p) \/ Recalc(p) \/ Return(p)
SpecFinalizeAgain == InitInterrupted /\ [][ServeFinalize(1)]_vars

\* user u1 has predicted a goalless draw on the scheduled match
InitDrawPredicted ==
  /\ matches = SeededMatches
  /\ teams = [t \in Teams |-> TRUE]
  /\ matchPreds = [k \in Users \X Matches |->
                     IF k = <<"u1", "m1">> THEN PostedMatchPred(0, 0, "DRAW") ELSE NoMatchPred(0)]
  /\ groupPreds = [k \in Users \X Groups |-> NoGroupPred(0)]
  /\ knockoutPreds = [k \in Users \X Slots |-> NoKnockoutPred(0)]
  /\ tournamentPreds = [u \in Users |-> NoTournamentPred(0)]
  /\ users = [u \in Users |-> NewUser]
  /\ pc = [p \in Procs |-> "idle"]
  /\ req = [p \in Procs |-> NoReq]
  /\ loc = [p \in Procs |-> NoLoc]
  /\ ops = 0
  /\ posts = 1
  /\ last = NoLast

\* two requests in flight that enter final scores of the match
SpecFinalizeConc == InitDrawPredicted /\ [][\E p \in Procs : ServeFinalize(p)]_vars

\* user u1 has predicted t1 first and t2 second in group A
InitGroupPredicted ==
  /\ matches = SeededMatches
  /\ teams = [t \in Teams |-> TRUE]
  /\ matchPreds = [k \in Users \X Matches |-> NoMatchPred(0)]
  /\ groupPreds = [k \in Users \X Groups |->
                     IF k[1] = "u1"
                     THEN [NoGroupPred(1) EXCEPT !.exists = TRUE, !.copies = 1,
                                                 !.firstPlaceTeam = "t1", !.secondPlaceTeam = "t2"]
                     ELSE NoGroupPred(0)]
  /\ knockoutPreds = [k \in Users \X Slots |-> NoKnockoutPred(0)]
  /\ tournamentPreds = [u \in Users |-> NoTournamentPred(0)]
  /\ users = [u \in Users |-> NewUser]
  /\ pc = [p \in Procs |-> "idle"]
  /\ req = [p \in Procs |-> NoReq]
  /\ loc = [p \in Procs |-> NoLoc]
  /\ ops = 0
  /\ posts = 1
  /\ last = NoLast

\* two calculate-points requests of part_000 in flight
SpecCalcGroupConc ==
  InitGroupPredicted
  /\ [][\E p \in Procs : CalculateGroupPoints(p) \/ CalcGroupSteps(p) \/ Return(p)]_vars

\* a leaderboard page and a my-position request in flight on the same
\* aggregates
SpecRanking ==
  InitRanking
  /\ [][\E p \in Procs : \/ GetLeaderboard(p) \/ leaderboard_count(p)
                         \/ GetMyPosition(p) \/ myPosition_better(p) \/ myPosition_total(p)
                         \/ Return(p)]_vars

\* one request at a time: match and group predictions, the final results of
\* the match and the standings of the group
SpecFinalizeSeq ==
  Init
  /\ [][\/ PostOneNil(1) \/ PostGroupPrediction(1)
        \/ FinishMatch(1) \/ AdminRecalculateGroupPoints(1)
        \/ CalcMatch(1) \/ postMatchPrediction_upsert(1) \/ adminGroup_savePred(1)
        \/ Recalc(1) \/ Return(1)]_vars

\* -------------------------------------------------------------- properties
\* what a stored document counts for in its owner's total
PointsOf(doc) == IF doc.exists THEN doc.pointsAwarded ELSE 0

\* the sum of the pointsAwarded stored on the prediction records of user u
StoredPoints(u) ==
  SumOver([g \in Groups |-> PointsOf(groupPreds[<<u, g>>])], Groups)
  + SumOver([m \in Matches |-> PointsOf(matchPreds[<<u, m>>])], Matches)
  + SumOver([s \in Slots |-> PointsOf(knockoutPreds[<<u, s>>])], Slots)
  + PointsOf(tournamentPreds[u])

\* a match that holds a final result: status Finished and both scores present
Terminal(match) ==
  match.exists /\ match.status = "Finished" /\ match.homeScore # NULL /\ match.awayScore # NULL

\* C1: when a request has run recalcUserTotals(U) and responded, no other
\* request having written meanwhile, U.totalPoints is the sum of the stored
\* pointsAwarded of U's group, match, knockout and tournament predictions
C1_RecalcTotalIsSum ==
  \A p \in Procs :
    pc[p] = "done" => \A u \in loc[p].recalced : users[u].totalPoints = StoredPoints(u)

\* a user recomputed with points stored in two categories
C1_Witness ==
  \E u \in Users :
    /\ pc[1] = "done" /\ u \in loc[1].recalced
    /\ matchPreds[<<u, "m1">>].exists /\ matchPreds[<<u, "m1">>].pointsAwarded > 0
    /\ groupPreds[<<u, "A">>].exists /\ groupPreds[<<u, "A">>].pointsAwarded > 0
    /\ users[u].totalPoints
         = matchPreds[<<u, "m1">>].pointsAwarded + groupPreds[<<u, "A">>].pointsAwarded

\* C2: once every request in flight has completed, whatever the interleaving
\* of finalizations, deletions and recomputations, each user's totalPoints is
\* the sum of the pointsAwarded stored on the user's predictions
C2_QuiescentTotalIsSum ==
  (\A p \in Procs : pc[p] = "idle") => \A u \in Users : users[u].totalPoints = StoredPoints(u)

\* C3: a finalization answered right after the same finalization, nothing
\* served in between, leaves every prediction and every user's aggregate as
\* the first left them
C3_SecondFinalizationChangesNothing ==
  \A p \in Procs :
    (/\ pc[p] = "done" /\ loc[p].status = 200
     /\ req[p].op \in Finalizations
     /\ last.req = req[p])
    => db = last.db

\* the same final score entered twice, a prediction of the match holding 8 points
C3_Witness ==
  \E p \in Procs, u \in Users :
    /\ pc[p] = "done" /\ loc[p].status = 200
    /\ req[p].op = "adminPutMatch"
    /\ last.req = req[p]
    /\ matchPreds[<<u, req[p].match>>].exists
    /\ matchPreds[<<u, req[p].match>>].pointsAwarded = CorrectWinnerPoints + CorrectScorePoints
    /\ users[u].totalPoints = CorrectWinnerPoints + CorrectScorePoints

\* C4: a step that changes a user's totalPoints is the save of
\* recalcUserTotals; no other step writes the field
C4_TotalChangesOnlyInRecalc ==
  [][\A u \in Users :
       users'[u].totalPoints # users[u].totalPoints => \E p \in Procs : pc[p] = "recalc_save"]_vars

\* pointsAwarded of one record over one step: 0 on creation, and changed on a
\* record that stays only while a finalization is being served
PointsKept(old, new) ==
  IF ~new.exists THEN TRUE
  ELSE IF ~old.exists THEN new.pointsAwarded = 0
  ELSE new.pointsAwarded # old.pointsAwarded => \E p \in Procs : req[p].op \in Finalizations

\* C5: pointsAwarded is 0 on a record just created, and no request other than
\* a result finalization changes it
C5_PointsWrittenOnlyByFinalization ==
  [][/\ \A k \in Users \X Matches : PointsKept(matchPreds[k], matchPreds'[k])
     /\ \A k \in Users \X Groups : PointsKept(groupPreds[k], groupPreds'[k])
     /\ \A k \in Users \X Slots : PointsKept(knockoutPreds[k], knockoutPreds'[k])
     /\ \A u \in Users : PointsKept(tournamentPreds[u], tournamentPreds'[u])]_vars

\* C6: when the administrator's update to a final result has been answered,
\* every knockout prediction linked to the match stores the points the
\* knockout scorer gives it
C6_KnockoutRescoredOnFinalization ==
  \A p \in Procs :
    (/\ pc[p] = "done" /\ loc[p].status = 200
     /\ req[p].op = "adminPutMatch"
     /\ Terminal(matches[req[p].match]))
    => \A k \in Users \X Slots :
         (knockoutPreds[k].exists /\ knockoutPreds[k].match = req[p].match)
         => knockoutPreds[k].pointsAwarded = knockoutResult(k).pointsEarned

\* C7: when a request that deleted prediction records has been answered, each
\* owner of a deleted record holds the aggregates recomputed from the records
\* that remain
C7_DeletionRecomputesOwners ==
  \A p \in Procs :
    (pc[p] = "done" /\ loc[p].status = 200)
    => \A u \in loc[p].deleted : users[u] = recalcTotals(OwnPreds(u))

\* C8: when the scoring of a match has been answered, every prediction of
\* the batch after one whose save failed has been scored and saved
C8_FailureDoesNotStopBatch ==
  \A p \in Procs :
    (pc[p] = "done" /\ req[p].op = "adminPutMatch")
    => \A i \in 2 .. Len(loc[p].todo) : loc[p].todo[i] \in loc[p].saved

\* C9: no step of an administrator's match update that leaves the match
\* without a final result changes a prediction or a user's aggregate
C9_NonTerminalUpdateScoresNothing ==
  [][\A p \in Procs :
       (/\ req'[p].op = "adminPutMatch"
        /\ matches'[req'[p].match].exists
        /\ ~Terminal(matches'[req'[p].match]))
       => preds' = preds /\ users' = users]_vars

\* an update to Finished without a home score answered, with a prediction of a
\* draw stored for the match and left at 0
C9_Witness ==
  \E u \in Users :
    /\ pc[1] = "done" /\ loc[1].status = 200
    /\ req[1].op = "adminPutMatch"
    /\ matches[req[1].match].status = "Finished"
    /\ matches[req[1].match].homeScore = NULL
    /\ matchPreds[<<u, req[1].match>>].exists
    /\ matchPreds[<<u, req[1].match>>].winnerPred = "DRAW"
    /\ matchPreds[<<u, req[1].match>>].pointsAwarded = 0

\* C10: when the administrator's update to a final result has been answered,
\* each prediction of the match stores isCorrectWinner = (winnerPred is the
\* actual winner), isCorrectScore = isCorrectWinner and both goal counts exact,
\* and pointsAwarded 8 with both, 3 with the winner alone, 0 otherwise
C10_MatchScorerStoresFlagsAndPoints ==
  \A p \in Procs :
    (/\ pc[p] = "done" /\ loc[p].status = 200
     /\ req[p].op = "adminPutMatch"
     /\ Terminal(matches[req[p].match]))
    => \A u \in Users :
         LET pred == matchPreds[<<u, req[p].match>>]
             match == matches[req[p].match]
             actual == IF match.homeScore > match.awayScore THEN "HOME"
                       ELSE IF match.awayScore > match.homeScore THEN "AWAY"
                       ELSE "DRAW"
         IN pred.exists =>
              /\ pred.isCorrectWinner = (pred.winnerPred = actual)
              /\ pred.isCorrectScore = (/\ pred.isCorrectWinner
                                        /\ pred.homeGoalsPred = match.homeScore
                                        /\ pred.awayGoalsPred = match.awayScore)
              /\ pred.pointsAwarded = IF pred.isCorrectScore THEN 8
                                      ELSE IF pred.isCorrectWinner THEN 3
                                      ELSE 0

\* a final result answered with one prediction at 8 points and another at 3
C10_Witness ==
  /\ pc[1] = "done" /\ loc[1].status = 200
  /\ req[1].op = "adminPutMatch"
  /\ Terminal(matches[req[1].match])
  /\ matchPreds[<<"u1", req[1].match>>].exists
  /\ matchPreds[<<"u1", req[1].match>>].pointsAwarded = 8
  /\ matchPreds[<<"u2", req[1].match>>].exists
  /\ matchPreds[<<"u2", req[1].match>>].pointsAwarded = 3

\* ---------------------------------------------------------------- C11
\* the places of a group prediction that match the standings
MatchesFirst(prediction, standings) == prediction.firstPlaceTeam = standings.first
MatchesSecond(prediction, standings) == prediction.secondPlaceTeam = standings.second
MatchesThird(prediction, standings) ==
  prediction.thirdPlaceTeam \in Teams /\ prediction.thirdPlaceTeam = standings.third

\* the group scoring requests of part_000
GroupScorings == {"adminRecalculateGroupPoints", "calculateGroupPoints"}

\* C11: when a group scoring request of part_000 has answered 200, every
\* prediction it saved stores 5 for a matching first place plus 3 for a
\* matching second place plus 2 for a matching third place, plus 5 exactly
\* when the three places match: 15 for the perfect group, never 10 or 20.
C11_GroupPointsAndBonus ==
  \A p \in Procs :
    (pc[p] = "done" /\ loc[p].status = 200 /\ req[p].op \in GroupScorings) =>
      \A u \in loc[p].saved :
        LET prediction == groupPreds[<<u, req[p].group>>]
            first == MatchesFirst(prediction, req[p].standings)
            second == MatchesSecond(prediction, req[p].standings)
            third == MatchesThird(prediction, req[p].standings)
            places == (IF first THEN 5 ELSE 0) + (IF second THEN 3 ELSE 0) + (IF third THEN 2 ELSE 0)
            all == first /\ second /\ third
        IN /\ prediction.pointsAwarded = places + (IF all THEN 5 ELSE 0)
           /\ (prediction.pointsAwarded = 15) = all
           /\ prediction.pointsAwarded \notin {10, 20}

\* a perfect group has been scored
C11_Witness ==
  \E p \in Procs :
    /\ pc[p] = "done" /\ loc[p].status = 200 /\ req[p].op \in GroupScorings
    /\ \E u \in loc[p].saved :
         LET prediction == groupPreds[<<u, req[p].group>>]
         IN /\ MatchesFirst(prediction, req[p].standings)
            /\ MatchesSecond(prediction, req[p].standings)
            /\ MatchesThird(prediction, req[p].standings)
            /\ prediction.pointsAwarded = 15

\* ---------------------------------------------------------------- C12
\* the group scoring requests of both servers
AllGroupScorings ==
  GroupScorings \cup {"srvCalculateGroupPoints", "srvAdminRecalculateGroupPoints"}

\* C12: when a group scoring request of either server has answered 200, a
\* prediction it saved that has no third-place team stores the points of its
\* first and second place alone: neither the 2 points of the third place nor
\* the bonus, whatever third place the standings give (a team, null, none).
C12_NoThirdPlaceNoThirdPoints ==
  \A p \in Procs :
    (pc[p] = "done" /\ loc[p].status = 200 /\ req[p].op \in AllGroupScorings) =>
      \A u \in loc[p].saved :
        LET prediction == groupPreds[<<u, req[p].group>>]
        IN prediction.thirdPlaceTeam = NoRef =>
             prediction.pointsAwarded =
               (IF MatchesFirst(prediction, req[p].standings) THEN 5 ELSE 0)
               + (IF MatchesSecond(prediction, req[p].standings) THEN 3 ELSE 0)

\* ---------------------------------------------------------------- C13
\* slot p has answered GET knockout/results, with any status
ResultsAnswered(p) == pc[p] = "done" /\ req[p].op = "getKnockoutResults"

\* the prediction of the user of request p at slot s is linked to a match
\* that is there and Finished
LinkedToFinished(p, s) ==
  LET pred == knockoutPreds[<<req[p].user, s>>]
  IN /\ pred.exists /\ pred.match # NoRef
     /\ matches[pred.match].exists /\ matches[pred.match].status = "Finished"

\* the match the prediction is linked to
LinkedMatch(p, s) == matches[knockoutPreds[<<req[p].user, s>>].match]

\* both scores of a match are entered
HasScores(match) == match.homeScore # NULL /\ match.awayScore # NULL

\* the team with more goals, as the match document names it, of a match
\* with both scores and no draw
WinnerTeam(p, s) ==
  IF LinkedMatch(p, s).homeScore > LinkedMatch(p, s).awayScore
  THEN LinkedMatch(p, s).homeTeam ELSE LinkedMatch(p, s).awayTeam

\* C13: GET knockout/results answers 200 and, in the answer, a prediction
\* linked to a finished match with equal home and away scores has
\* isCorrect = null and pointsEarned = 0; a prediction naming another team
\* than the one with more goals in the finished match it is linked to (both
\* scores entered, not equal) has isCorrect = false and pointsEarned = 0.
C13_DrawIsNullWrongIsFalse ==
  \A p \in Procs : ResultsAnswered(p) =>
    \A s \in Slots : LinkedToFinished(p, s) =>
      LET match == LinkedMatch(p, s)
          pred == knockoutPreds[<<req[p].user, s>>]
          entry == loc[p].results[s]
      IN /\ loc[p].status = 200
         /\ entry.listed
         /\ match.homeScore = match.awayScore =>
              entry.isCorrect = "null" /\ entry.pointsEarned = 0
         /\ (HasScores(match) /\ match.homeScore # match.awayScore
               /\ pred.predictedWinnerTeam # WinnerTeam(p, s)) =>
              entry.isCorrect = "false" /\ entry.pointsEarned = 0

\* ---------------------------------------------------------------- C14
\* the value stated for each stage
StageValue(stage) ==
  CASE stage = "Round of 32" -> 1
    [] stage = "Round of 16" -> 2
    [] stage = "Quarter Finals" -> 3
    [] stage = "Semi Finals" -> 5
    [] stage = "Third Place" -> 3
    [] stage = "Final" -> 10

\* the prediction at slot s names the winner of the finished match it is
\* linked to
NamesWinner(p, s) ==
  /\ LinkedToFinished(p, s)
  /\ HasScores(LinkedMatch(p, s))
  /\ LinkedMatch(p, s).homeScore # LinkedMatch(p, s).awayScore
  /\ knockoutPreds[<<req[p].user, s>>].predictedWinnerTeam = WinnerTeam(p, s)

\* C14: GET knockout/results answers 200 and, in the answer, every
\* prediction linked to a finished match with a winner (both scores entered,
\* not equal) earns the value of its own stage (1, 2, 3, 5, 3, 10) when it
\* names the winner and 0 otherwise; the rule table of GET points-system
\* publishes the same value for every stage.
C14_StageValueOrZero ==
  /\ \A stage \in Stages : pointsSystemKnockout(stage) = StageValue(stage)
  /\ \A p \in Procs : ResultsAnswered(p) =>
       \A s \in Slots :
         (LinkedToFinished(p, s) /\ HasScores(LinkedMatch(p, s))
            /\ LinkedMatch(p, s).homeScore # LinkedMatch(p, s).awayScore) =>
           /\ loc[p].status = 200
           /\ loc[p].results[s].listed
           /\ loc[p].results[s].pointsEarned =
                IF NamesWinner(p, s) THEN StageValue(s[1]) ELSE 0

\* ---------------------------------------------------------------- C15
\* the ranking tuple of a user document or of a leaderboard entry
TupleOf(e) == <<e.totalPoints, e.correctScores, e.correctMatches>>

\* tuple x is greater than tuple y in the lexicographic order
LexGreater(x, y) ==
  \E i \in 1 .. 3 : x[i] > y[i] /\ \A j \in 1 .. (i - 1) : x[j] = y[j]

\* slot p has answered GET leaderboard
BoardAnswered(p) == pc[p] = "done" /\ loc[p].status = 200 /\ req[p].op = "getLeaderboard"

\* C15: the entries of an answered leaderboard page carry the aggregates of
\* their users and the positions skip + 1, skip + 2, ... in list order; over
\* the entries of one page and of any two pages answered on the same
\* aggregates, an entry with the lexicographically greater (totalPoints,
\* correctScores, correctMatches) has the strictly smaller position, and so
\* has an entry with more totalPoints.
C15_LeaderboardDescending ==
  \A p, q \in Procs : (BoardAnswered(p) /\ BoardAnswered(q)) =>
    /\ \A i \in DOMAIN loc[p].board :
         /\ loc[p].board[i].position = (req[p].page - 1) * req[p].limit + i
         /\ TupleOf(loc[p].board[i]) = TupleOf(users[loc[p].board[i].user])
    /\ \A i \in DOMAIN loc[p].board, j \in DOMAIN loc[q].board :
         LET a == loc[p].board[i]
             b == loc[q].board[j]
         IN /\ LexGreater(TupleOf(a), TupleOf(b)) => a.position < b.position
            /\ a.totalPoints > b.totalPoints => a.position < b.position

\* two pages of one user each: the users have the same totalPoints and the
\* one with more correctScores is on the earlier page
C15_Witness ==
  \E p, q \in Procs :
    /\ BoardAnswered(p) /\ BoardAnswered(q)
    /\ req[p].limit = 1 /\ req[q].limit = 1 /\ req[p].page < req[q].page
    /\ Len(loc[p].board) = 1 /\ Len(loc[q].board) = 1
    /\ loc[p].board[1].totalPoints = loc[q].board[1].totalPoints
    /\ loc[p].board[1].correctScores > loc[q].board[1].correctScores
    /\ loc[p].board[1].position < loc[q].board[1].position

\* ---------------------------------------------------------------- C16
\* slot p has answered GET my-position, of either server
PositionAnswered(p) ==
  pc[p] = "done" /\ loc[p].status = 200 /\ req[p].op \in {"getMyPosition", "srvGetMyPosition"}

\* the users whose tuple is lexicographically greater than that of user u
StrictlyAbove(u) == {o \in Users : LexGreater(TupleOf(users[o]), TupleOf(users[u]))}

\* C16: the position my-position answers for a user is 1 plus the number of
\* users whose (totalPoints, correctScores, correctMatches) is strictly
\* greater in the lexicographic order; a user with the same tuple is not
\* counted.
C16_PositionCountsStrictlyGreater ==
  \A p \in Procs : PositionAnswered(p) =>
    loc[p].position = 1 + Cardinality(StrictlyAbove(req[p].user))

\* a user in position 2 with one user above by correctScores alone and one
\* user with the same tuple
C16_Witness ==
  \E p \in Procs : PositionAnswered(p) /\
    LET u == req[p].user
    IN /\ loc[p].position = 2
       /\ \E o \in Users \ {u} : TupleOf(users[o]) = TupleOf(users[u])
       /\ \E o \in Users : /\ users[o].totalPoints = users[u].totalPoints
                            /\ users[o].correctScores > users[u].correctScores

\* ---------------------------------------------------------------- C17
\* the users with points
RankedUsers == {o \in Users : users[o].totalPoints > 0}

\* for every position among up to MaxRanked users with points, the percentile
\* the doubles of the handler give is an integer nearest to
\* (1 - position / totalUsers) * 100: at most one half away from it
PercentilesNearest ==
  \A position \in 1 .. MaxRanked, totalUsers \in 1 .. MaxRanked :
    LET d == percentile(position, totalUsers) * totalUsers - (totalUsers - position) * 100
    IN 2 * d <= totalUsers /\ 0 - 2 * d <= totalUsers

\* C17: the percentile my-position answers is 0 when no user has points, and
\* otherwise the integer nearest to (1 - position / totalRankedUsers) * 100,
\* with totalRankedUsers the number of users with totalPoints > 0 (written
\* without fractions: |percentile * n - (n - position) * 100| * 2 <= n).
C17_PercentileRounded ==
  /\ PercentilesNearest
  /\ \A p \in Procs : PositionAnswered(p) =>
       LET n == Cardinality(RankedUsers)
           d == loc[p].percentile * n - (n - loc[p].position) * 100
       IN /\ loc[p].totalUsers = n
          /\ n = 0 => loc[p].percentile = 0
          /\ n > 0 => (2 * d <= n /\ 0 - 2 * d <= n)

\* first of three users with points: 66.67 rounded to 67
C17_Witness ==
  \E p \in Procs :
    /\ PositionAnswered(p)
    /\ Cardinality(RankedUsers) = 3
    /\ loc[p].position = 1
    /\ loc[p].percentile = 67

\* ---------------------------------------------------------------- C18
\* the stored match predictions of user u that hold a flag
FlaggedWinner(u) ==
  {m \in Matches : matchPreds[<<u, m>>].exists /\ matchPreds[<<u, m>>].isCorrectWinner}
FlaggedScore(u) ==
  {m \in Matches : matchPreds[<<u, m>>].exists /\ matchPreds[<<u, m>>].isCorrectScore}

\* C18: when a request has run recalcUserTotals(U) and responded, no other
\* request having written meanwhile, U.correctMatches is the number of U's
\* match predictions with isCorrectWinner and U.correctScores the number of
\* them with isCorrectScore.
C18_RecalcCountsFlags ==
  \A p \in Procs :
    pc[p] = "done" =>
      \A u \in loc[p].recalced :
        /\ users[u].correctMatches = Cardinality(FlaggedWinner(u))
        /\ users[u].correctScores = Cardinality(FlaggedScore(u))

\* a user recomputed who holds two predictions with the winner right, one of
\* them with the score right too
C18_Witness ==
  \E p \in Procs, u \in Users :
    /\ pc[p] = "done" /\ u \in loc[p].recalced
    /\ FlaggedWinner(u) = {"m1", "m2"} /\ Cardinality(FlaggedScore(u)) = 1
    /\ users[u].correctMatches = 2 /\ users[u].correctScores = 1

\* ---------------------------------------------------------------- C19
\* C19: when the recomputation of every user has been served right after a
\* finalization, so that recalcUserTotals(U) has run a second time for each
\* user U the finalization recomputed and no prediction has changed between
\* the two runs, U holds the totalPoints, correctMatches and correctScores the
\* first run left, and every prediction record is as the finalization left it.
C19_SecondRecalcChangesNothing ==
  \A p \in Procs :
    (/\ pc[p] = "done" /\ req[p].op = "calculateAllPoints"
     /\ last.req = req[p])
    => /\ \A u \in last.recalced : users[u] = last.db[6][u]
       /\ preds = <<last.db[2], last.db[3], last.db[4], last.db[5]>>

\* the second recomputation of a user who holds 8 points and both counts at 1
C19_Witness ==
  \E p \in Procs, u \in Users :
    /\ pc[p] = "done" /\ req[p].op = "calculateAllPoints"
    /\ last.req = req[p]
    /\ u \in last.recalced /\ u \in loc[p].recalced
    /\ users[u].totalPoints = CorrectWinnerPoints + CorrectScorePoints
    /\ users[u].correctMatches = 1 /\ users[u].correctScores = 1

\* ---------------------------------------------------------------- C20
\* C20: in every state, whatever the interleaving of upserts and deletions,
\* the database stores at most one GroupPrediction per (user, group), one
\* MatchPrediction per (user, match), one KnockoutPrediction per (user, stage,
\* matchOrder) and one TournamentPrediction per user.
C20_OnePredictionPerKey ==
  /\ \A k \in Users \X Groups : groupPreds[k].copies <= 1
  /\ \A k \in Users \X Matches : matchPreds[k].copies <= 1
  /\ \A k \in Users \X Slots : knockoutPreds[k].copies <= 1
  /\ \A u \in Users : tournamentPreds[u].copies <= 1

\* two upserts of the same group prediction have both found no document and
\* have both been answered: one document is stored
C20_Witness ==
  /\ pc[1] = "done" /\ pc[2] = "done"
  /\ req[1].op = "postGroupPrediction" /\ req[2] = req[1]
  /\ loc[1].missed /\ loc[2].missed
  /\ groupPreds[<<req[1].user, req[1].group>>].copies = 1

\* ---------------------------------------------------------------- C21
\* C21: when calculate-points of part_000 has answered for the same user,
\* group and standings as the request answered just before it, the database
\* is as that request left it: the prediction's pointsAwarded and the user's
\* totalPoints are unchanged, so the points of the group are added once.
C21_SecondCalculatePointsChangesNothing ==
  \A p \in Procs :
    (/\ pc[p] = "done" /\ loc[p].status = 200
     /\ req[p].op = "calculateGroupPoints"
     /\ last.req = req[p])
    => /\ db = last.db
       /\ groupPreds[<<req[p].user, req[p].group>>].pointsAwarded = loc[p].points
       /\ loc[p].oldPoints = loc[p].points

\* the second call for a perfect group: 15 points on the prediction and on the user
C21_Witness ==
  \E p \in Procs :
    /\ pc[p] = "done" /\ loc[p].status = 200
    /\ req[p].op = "calculateGroupPoints"
    /\ last.req = req[p]
    /\ groupPreds[<<req[p].user, req[p].group>>].pointsAwarded = 15
    /\ users[req[p].user].totalPoints = 15

\* ---------------------------------------------------------------- C22
\* the predicted fields of a match prediction record, and whether it is stored
Predicted(doc) == <<doc.exists, doc.winnerPred, doc.homeGoalsPred, doc.awayGoalsPred>>

\* C22: no step of a prediction upsert creates a match prediction or changes
\* its winnerPred, homeGoalsPred or awayGoalsPred while the match it refers to
\* has status Finished, and an upsert answered 400 or 404 has changed no
\* record.
C22_NoUpsertOnFinishedMatch ==
  [][\A p \in Procs :
       /\ (/\ pc[p] = "postMatchPrediction_upsert"
           /\ pc'[p] # pc[p]
           /\ matches[req[p].match].exists
           /\ matches[req[p].match].status = "Finished")
          => Predicted(matchPreds'[<<req[p].user, req[p].match>>])
               = Predicted(matchPreds[<<req[p].user, req[p].match>>])
       /\ (/\ pc[p] = "idle" /\ pc'[p] = "done"
           /\ req'[p].op = "postMatchPrediction"
           /\ loc'[p].status \in {400, 404})
          => db' = db]_vars

\* ---------------------------------------------------------------- C23
\* a prediction with the derived fields at the schema defaults
Fresh(pred) ==
  [pred EXCEPT !.pointsAwarded = 0, !.isCorrectWinner = FALSE, !.isCorrectScore = FALSE]

\* C23: when the administrator's update to a final result has been answered,
\* requests served one at a time, each prediction of the match stores the
\* pointsAwarded and flags the scoring of the same prediction with zero
\* derived values gives, and its owner holds the aggregates that follow from
\* them, whatever derived values were stored before: those of an earlier
\* final result with another score, or of a finalization that scored only
\* some of the predictions.
C23_FinalizationIgnoresStoredValues ==
  \A p \in Procs :
    (/\ pc[p] = "done" /\ loc[p].status = 200
     /\ req[p].op = "adminPutMatch"
     /\ Terminal(matches[req[p].match]))
    => \A u \in Users :
         LET m == req[p].match
             pred == matchPreds[<<u, m>>]
             fresh == ScoredMatchPred(Fresh(pred), matches[m])
         IN pred.exists =>
              /\ pred = fresh
              /\ users[u].totalPoints = StoredPoints(u) - PointsOf(pred) + fresh.pointsAwarded
              /\ users[u].correctMatches =
                   Cardinality(FlaggedWinner(u) \ {m}) + (IF fresh.isCorrectWinner THEN 1 ELSE 0)
              /\ users[u].correctScores =
                   Cardinality(FlaggedScore(u) \ {m}) + (IF fresh.isCorrectScore THEN 1 ELSE 0)

\* a final result answered on a match where one prediction held 8 points of
\* an earlier score and now holds 0, and another held the defaults and now
\* holds 8
C23_Witness ==
  \E p \in Procs, u \in Users, v \in Users :
    /\ pc[p] = "done" /\ loc[p].status = 200
    /\ req[p].op = "adminPutMatch"
    /\ Terminal(matches[req[p].match])
    /\ loc[p].preds[u].exists /\ loc[p].preds[u].pointsAwarded = 8
    /\ matchPreds[<<u, req[p].match>>].pointsAwarded = 0
    /\ users[u].totalPoints = 0 /\ users[u].correctScores = 0
    /\ loc[p].preds[v].exists /\ loc[p].preds[v] = Fresh(loc[p].preds[v])
    /\ matchPreds[<<v, req[p].match>>].pointsAwarded = 8
    /\ users[v].totalPoints = 8 /\ users[v].correctScores = 1

\* ---------------------------------------------------------------- C24
\* C24: every stored match prediction has isCorrectScore only with
\* isCorrectWinner, and pointsAwarded = 3 for isCorrectWinner plus 5 for
\* isCorrectScore (0, 3 or 8).
C24_FlagsAndPointsAgree ==
  \A k \in Users \X Matches :
    matchPreds[k].exists =>
      /\ matchPreds[k].isCorrectScore => matchPreds[k].isCorrectWinner
      /\ matchPreds[k].pointsAwarded =
           (IF matchPreds[k].isCorrectWinner THEN CorrectWinnerPoints ELSE 0)
           + (IF matchPreds[k].isCorrectScore THEN CorrectScorePoints ELSE 0)

\* ---------------------------------------------------------------- C25
\* C25: when no request is being served, every stored prediction of a match
\* that is Finished with both scores present holds the pointsAwarded,
\* isCorrectWinner and isCorrectScore the match scorer gives for the
\* prediction's current predicted fields and the match's current scores.
C25_FinishedMatchesAreScored ==
  (\A p \in Procs : pc[p] = "idle")
  => \A k \in Users \X Matches :
       (matchPreds[k].exists /\ Terminal(matches[k[2]]))
       => matchPreds[k] = ScoredMatchPred(matchPreds[k], matches[k[2]])

\* ---------------------------------------------------------------- C26
\* C26: totalPoints is never negative, and when two calculate-points
\* requests of the same user for the same group have both been answered, the
\* user's totalPoints has changed since before the two requests (when it was
\* 0, the prediction holding 0 points) by the pointsAwarded the prediction
\* stores now minus the pointsAwarded it held before.
C26_TwoCallsCountThePointsOnce ==
  /\ \A u \in Users : users[u].totalPoints >= 0
  /\ \A u \in Users, g \in Groups :
       (\A p \in Procs : /\ pc[p] = "done" /\ loc[p].status = 200
                         /\ req[p].op = "calculateGroupPoints"
                         /\ req[p].user = u /\ req[p].group = g)
       => users[u].totalPoints - NewUser.totalPoints
            = groupPreds[<<u, g>>].pointsAwarded - NoGroupPred(0).pointsAwarded

\* ---------------------------------------------------------------- C27
\* C27: the percentile my-position answers is an integer from 0 to 100, also
\* for a user with totalPoints 0 while other users have points.
C27_PercentileInRange ==
  \A p \in Procs : PositionAnswered(p) =>
    /\ loc[p].percentile \in Int
    /\ 0 <= loc[p].percentile /\ loc[p].percentile <= 100

\* ---------------------------------------------------------------- C28
\* C28: when a leaderboard page that lists user U and the my-position of U
\* have both been answered on the same aggregates, the position of U's entry
\* in the page is the position my-position answers, whatever the page size
\* and also when several users hold the same (totalPoints, correctScores,
\* correctMatches).
C28_LeaderboardAgreesWithMyPosition ==
  \A p, q \in Procs :
    (BoardAnswered(p) /\ PositionAnswered(q)) =>
      \A i \in DOMAIN loc[p].board :
        loc[p].board[i].user = req[q].user => loc[p].board[i].position = loc[q].position

\* ---------------------------------------------------------------- C29
\* C29: every stored tournament prediction has pointsAwarded 0, and the
\* totalPoints recalcUserTotals stores for a user holds nothing of the
\* user's tournament prediction: it is the sum of the pointsAwarded of the
\* user's group, match and knockout predictions.
C29_TournamentPredictionsScoreNothing ==
  /\ \A u \in Users : tournamentPreds[u].exists => tournamentPreds[u].pointsAwarded = 0
  /\ \A p \in Procs :
       pc[p] = "done" =>
         \A u \in loc[p].recalced :
           users[u].totalPoints = StoredPoints(u) - PointsOf(tournamentPreds[u])

\* a user recomputed who holds a tournament prediction and the 8 points of a
\* group prediction
C29_Witness ==
  \E p \in Procs, u \in Users :
    /\ pc[p] = "done" /\ u \in loc[p].recalced
    /\ tournamentPreds[u].exists /\ tournamentPreds[u].championTeam \in Teams
    /\ tournamentPreds[u].pointsAwarded = 0
    /\ groupPreds[<<u, "A">>].exists /\ groupPreds[<<u, "A">>].pointsAwarded = 8
    /\ users[u].totalPoints = 8

\* ---------------------------------------------------------------- C30
\* the prediction records of user v
RecordsOf(v) ==
  <<[m \in Matches |-> matchPreds[<<v, m>>]], [g \in Groups |-> groupPreds[<<v, g>>]],
    [s \in Slots |-> knockoutPreds[<<v, s>>]], tournamentPreds[v]>>

\* the keys under which a prediction record is stored
StoredKeys ==
  <<{k \in Users \X Matches : matchPreds[k].exists}, {k \in Users \X Groups : groupPreds[k].exists},
    {k \in Users \X Slots : knockoutPreds[k].exists}, {u \in Users : tournamentPreds[u].exists}>>

\* user v owns a prediction of the match or group the finalization r is about
OwnsPredictionOf(v, r) ==
  IF r.op = "adminPutMatch" THEN matchPreds[<<v, r.match>>].exists
  ELSE groupPreds[<<v, r.group>>].exists

\* the slot p takes a step of the handler of its request
Steps(p) == pc'[p] # pc[p] \/ loc'[p] # loc[p]

\* C30: no step of a finalization (a final match result or the standings of
\* a group) changes the totalPoints, correctMatches, correctScores or any
\* prediction record of a user who owns no prediction of that match or group,
\* and none creates or deletes a prediction record; no step of
\* recalcUserTotals(U) changes the aggregates of another user or any
\* prediction record.
C30_OtherUsersUntouched ==
  [][\A p \in Procs :
       /\ (Steps(p) /\ req'[p].op \in Finalizations)
          => /\ StoredKeys' = StoredKeys
             /\ \A v \in Users :
                  ~OwnsPredictionOf(v, req'[p])
                  => users'[v] = users[v] /\ RecordsOf(v)' = RecordsOf(v)
       /\ (Steps(p) /\ pc[p] \in {"recalc_findUser", "recalc_findGroup", "recalc_findMatch",
                                 "recalc_findKnockout", "recalc_findTournament", "recalc_save"})
          => /\ preds' = preds
             /\ \A v \in Users \ {Head(loc[p].touched)} : users'[v] = users[v]]_vars

\* a final match result answered after the recomputation of the owner of the
\* one prediction of the match, while another user holds a group prediction
\* and the 8 points scored on it
C30_Witness ==
  \E p \in Procs, u \in Users, v \in Users :
    /\ pc[p] = "done" /\ loc[p].status = 200
    /\ req[p].op = "adminPutMatch"
    /\ u \in loc[p].recalced /\ v \notin loc[p].recalced
    /\ matchPreds[<<u, req[p].match>>].exists /\ users[u].totalPoints = 8
    /\ ~matchPreds[<<v, req[p].match>>].exists
    /\ groupPreds[<<v, "A">>].exists /\ groupPreds[<<v, "A">>].pointsAwarded = 8
    /\ users[v].totalPoints = 8
====
